---- MODULE Spec2Model ----
(***************************************************************************)
(* pentaho/action/Execution: the phase machine that carries one action     *)
(* through the phases init, will, do and finally.                          *)
(*                                                                         *)
(* JavaScript runs every call to completion, so the model has one action  *)
(* per call made from outside, one per promise reaction (microtask), and   *)
(* one per thing a hook (user code called by the engine) can do while the  *)
(* engine is suspended in it.  The engine's position is kept in `stack`.   *)
(***************************************************************************)
EXTENDS Integers, Sequences, FiniteSets, TLC

\* Number of calls of the public API (execute, executeWill, done, reject,
\* promise), from outside or from inside hooks, along one behaviour.
MaxOps == 3

\* Events the triple-click handler receives.
MaxClicks == 5

\* Calls of onRegister and onUnregister made on the plugin.
MaxPluginCalls == 4

\* Entries of the strategy-application list of a visual role property.
MaxApplications == 2

\* Calls made on the parameter validator.
MaxValidations == 3

(***************************************************************************)
(* JavaScript values.  Every value is a record of the same shape, so that  *)
(* values of different types can be compared.  Error objects are           *)
(* identified by their class and message.                                  *)
(***************************************************************************)
Undefined == [t |-> "undefined", cls |-> "", msg |-> ""]
Null == [t |-> "null", cls |-> "", msg |-> ""]
Str(m) == [t |-> "string", cls |-> "", msg |-> m]
Num(m) == [t |-> "number", cls |-> "", msg |-> m]
Bool(m) == [t |-> "boolean", cls |-> "", msg |-> m]
Obj == [t |-> "object", cls |-> "Object", msg |-> ""]
Err(cls, m) == [t |-> "object", cls |-> cls, msg |-> m]

\* The values hooks and callers pass to reject(), throw, or reject a pending
\* computation with.
Reasons ==
  { Undefined, Null, Str(""), Str("Not allowed"), Num("0"), Num("7"),
    Bool("false"), Obj,
    Err("Error", "E1"), Err("UserError", "U1"), Err("RuntimeError", "R1") }

\* The values passed to done().  Results are plain (non-thenable) values.
Results == { Undefined, Str("r1") }

\* What action.validate() returns: null, or a list of errors (possibly empty).
Validations ==
  { [isNull |-> TRUE, errors |-> << >>],
    [isNull |-> FALSE, errors |-> << >>],
    [isNull |-> FALSE, errors |-> <<Err("Error", "V1")>>],
    [isNull |-> FALSE, errors |-> <<Err("UserError", "V2"), Err("Error", "V1")>>] }

\* JavaScript's ToBoolean, as used by `!reason`.
Falsy(v) ==
  \/ v.t \in {"undefined", "null"}
  \/ v.t = "string" /\ v.msg = ""
  \/ v.t = "number" /\ v.msg \in {"0", "NaN"}
  \/ v.t = "boolean" /\ v.msg = "false"

\* The classes of pentaho/lang: UserError extends Error, RuntimeError extends
\* UserError, the others extend Error directly.
ErrorClasses ==
  {"Error", "UserError", "RuntimeError", "ArgumentInvalidTypeError", "OperationInvalidError"}

instanceof(v, cls) ==
  /\ v.t = "object"
  /\ v.cls \in ErrorClasses
  /\ \/ cls = "Error"
     \/ cls = v.cls
     \/ cls = "UserError" /\ v.cls = "RuntimeError"

(***************************************************************************)
(* pentaho/action/States: one bit per state.                               *)
(***************************************************************************)
States ==
  [ unstarted |-> 1, init |-> 2, will |-> 4, do |-> 8,
    did |-> 16, canceled |-> 32, failed |-> 64, finished |-> 128 ]

RECURSIVE BitAnd(_, _)
BitAnd(a, b) ==
  IF a = 0 \/ b = 0 THEN 0
  ELSE (a % 2) * (b % 2) + 2 * BitAnd(a \div 2, b \div 2)

RECURSIVE BitOr(_, _)
BitOr(a, b) ==
  IF a = 0 THEN b
  ELSE IF b = 0 THEN a
  ELSE (IF (a % 2) + (b % 2) > 0 THEN 1 ELSE 0) + 2 * BitOr(a \div 2, b \div 2)

executingUnsettledStates ==
  BitOr(BitOr(States.unstarted, States.init), BitOr(States.will, States.do))

rejectedStates == BitOr(States.canceled, States.failed)

settledStates == BitOr(States.did, rejectedStates)

(***************************************************************************)
(* The state.                                                              *)
(***************************************************************************)
VARIABLES
  state,           \* this.__state
  isInside,        \* this.__isInside
  result,          \* this.__result
  error,           \* this.__error
  promiseControl,  \* this.__promiseControl; id = 0 stands for null
  isSync,          \* this.action.constructor.isSync
  validation,      \* what this.action.validate() returns
  locked,          \* whether _lockAction() froze the action
  stack,           \* the engine's frames, innermost first
  chain,           \* the promise chain built by __executeAsyncAction
  promiseSeq,      \* number of promise controls created so far
  promiseReads,    \* the promise instances handed out by `promise`
  hookLog,         \* the hooks started so far, in order
  last,            \* the public call that completed last
  executed,        \* execute() has been accepted
  rejectedFrom,    \* the state in which reject() was accepted, or 0
  invalid,         \* __executePhaseWill found validation errors
  ignored,         \* __rejectOrLog dropped a reason, the execution being settled
  hookActs,        \* a hook has called done() or reject(), or has thrown
  dropped,         \* the promise returned by _onPhaseDo that the engine ignored
  ops,             \* number of public calls made
  triclick_clicks, \* $elem.data("triclick_clicks"); 0 stands for no data as well
  triclick_start,  \* $elem.data("triclick_start"); 0 stands for no data as well
  clickLog,        \* the events tripleHandler received, with the type each left with
  paramDefn,       \* the parameter definition the validator works on
  defaultValues,   \* the default values the prompt passes to the validator
  validated,       \* the validator call made last
  validations,     \* number of validator calls made
  plugin,          \* the PentahoPlugin: whether created, its id and its config
  globalPlugin,    \* what the free identifier `plugin` of plugin.js resolves to
  pluginCalls,     \* the onRegister and onUnregister calls made, with what each did
  strategyApplicationList, \* this.__strategyTypeApplicationList
  externalMapping, \* modelAdapter.get(this)
  selected         \* what selectAdaptationStrategyOn returned last

\* The variables of the execution.
executionVars ==
  << state, isInside, result, error, promiseControl, isSync, validation, locked,
     stack, chain, promiseSeq, promiseReads, hookLog, last, executed,
     rejectedFrom, invalid, ignored, hookActs, dropped, ops >>

\* The variables of the element the triple-click handler is bound to.
clickVars == << triclick_clicks, triclick_start, clickLog >>

\* The variables of the parameter validator.
validatorVars == << paramDefn, defaultValues, validated, validations >>

\* The variables of the plugin.
pluginVars == << plugin, globalPlugin, pluginCalls >>

\* The variables of the visual role property.
roleVars == << strategyApplicationList, externalMapping, selected >>

vars == << executionVars, clickVars, validatorVars, pluginVars, roleVars >>

\* The state as one record: the engine's operators map worlds to worlds.
World ==
  [ state |-> state, isInside |-> isInside, result |-> result, error |-> error,
    promiseControl |-> promiseControl, isSync |-> isSync,
    validation |-> validation, locked |-> locked, stack |-> stack,
    chain |-> chain, promiseSeq |-> promiseSeq, promiseReads |-> promiseReads,
    hookLog |-> hookLog, last |-> last, executed |-> executed,
    rejectedFrom |-> rejectedFrom, invalid |-> invalid, ignored |-> ignored,
    hookActs |-> hookActs, dropped |-> dropped, ops |-> ops ]

Becomes(w) ==
  /\ state' = w.state
  /\ isInside' = w.isInside
  /\ result' = w.result
  /\ error' = w.error
  /\ promiseControl' = w.promiseControl
  /\ isSync' = w.isSync
  /\ validation' = w.validation
  /\ locked' = w.locked
  /\ stack' = w.stack
  /\ chain' = w.chain
  /\ promiseSeq' = w.promiseSeq
  /\ promiseReads' = w.promiseReads
  /\ hookLog' = w.hookLog
  /\ last' = w.last
  /\ executed' = w.executed
  /\ rejectedFrom' = w.rejectedFrom
  /\ invalid' = w.invalid
  /\ ignored' = w.ignored
  /\ UNCHANGED << clickVars, validatorVars, pluginVars, roleVars >>
  /\ hookActs' = w.hookActs
  /\ dropped' = w.dropped
  /\ ops' = w.ops

\* A promise control: the promise's identity, its state and value, the number
\* of resolve/reject calls that reached it, and the state it was created in.
NoPromiseControl ==
  [id |-> 0, status |-> "none", value |-> Undefined, settles |-> 0, at |-> 0]

NoCall == [op |-> "none", from |-> 0, inside |-> FALSE, origin |-> "none", status |-> "none"]

\* The promise chain: what it waits for, the reason it was rejected with, and
\* what settled promiseFinished.
Chain(stage, reason, via) == [stage |-> stage, reason |-> reason, via |-> via]

NoChain == Chain("none", Undefined, "none")

\* Status predicates (the getters of Execution).
isUnstarted(w) == w.state = States.unstarted
isSettled(w) == BitAnd(w.state, settledStates) # 0
isRejected(w) == BitAnd(w.state, rejectedStates) # 0
isCanceled(w) == BitAnd(w.state, States.canceled) # 0
isFailed(w) == BitAnd(w.state, States.failed) # 0
isDone(w) == BitAnd(w.state, States.did) # 0
isFinished(w) == BitAnd(w.state, States.finished) # 0
isExecuting(w) == ~(isUnstarted(w) \/ isFinished(w))

(***************************************************************************)
(* Frames, calls and hooks.                                                *)
(***************************************************************************)
Top(w) == Head(w.stack)

SetTop(w, f) == [w EXCEPT !.stack = <<f>> \o Tail(w.stack)]

Goto(w, pc) == SetTop(w, [Top(w) EXCEPT !.pc = pc])

InHook(w) == w.stack # << >> /\ Top(w).inHook

\* The record of a public call being made now.
Call(op, w) ==
  [ op |-> op, from |-> w.state, inside |-> w.isInside,
    origin |-> IF w.stack = << >> THEN "external" ELSE Top(w).hook,
    status |-> "running" ]

\* The call ends by throwing an OperationInvalidError at the call site.
Throws(w, c) == [w EXCEPT !.last = [c EXCEPT !.status = "threw"]]

Returns(w, c) == [w EXCEPT !.last = [c EXCEPT !.status = "returned"]]

Frame(driver, pc, c) ==
  [ driver |-> driver, pc |-> pc, inHook |-> FALSE, hook |-> "none",
    ret |-> "null", ex |-> Undefined, call |-> c ]

Push(w, f) == [w EXCEPT !.stack = <<f>> \o @]

\* The engine calls a hook: control passes to user code.
CallHook(w, hook) ==
  [ SetTop(w, [Top(w) EXCEPT !.inHook = TRUE, !.hook = hook, !.ret = "null"])
      EXCEPT !.hookLog = Append(@, hook) ]

\* The engine code a frame belongs to.
SyncDriver == "__executeSyncAction"
AsyncDriver == "__executeAsyncAction"
WillDriver == "executeWill"
RejectDriver == "reject"
DefaultReaction == "__executePhaseDoDefaultAsync"
FinallyReaction == "boundFinally"

\* The drivers that run inside __callInside.
InsideDrivers == {SyncDriver, AsyncDriver, WillDriver, FinallyReaction}

(***************************************************************************)
(* Execution control: done, reject, __reject, __rejectOrLog.               *)
(***************************************************************************)
__assertStates(w, states) == BitAnd(w.state, states) # 0

\* Mutant: the error is not recorded.
__reject_noError(w, reason) ==
  LET r == IF Falsy(reason) THEN Str("Canceled") ELSE reason
      isFail ==
        IF r.t = "string" THEN FALSE
        ELSE IF instanceof(r, "Error")
          THEN ~instanceof(r, "UserError") \/ instanceof(r, "RuntimeError")
          ELSE TRUE
  IN [w EXCEPT !.state = IF isFail THEN States.failed ELSE States.canceled,
               !.result = Undefined]

\* Mutant: a RuntimeError cancels, as any other UserError.
__reject_runtimeCancels(w, reason) ==
  LET r == IF Falsy(reason) THEN Str("Canceled") ELSE reason
      isString == r.t = "string"
      isError == instanceof(r, "Error")
      isFail ==
        IF isString THEN FALSE
        ELSE IF isError THEN ~instanceof(r, "UserError")
        ELSE TRUE
      err ==
        IF isString THEN Err("UserError", r.msg)
        ELSE IF isError THEN r
        ELSE Err("ArgumentInvalidTypeError", "reason")
  IN [w EXCEPT !.state = IF isFail THEN States.failed ELSE States.canceled,
               !.error = err,
               !.result = Undefined]

__reject(w, reason) ==
  LET r == IF Falsy(reason) THEN Str("Canceled") ELSE reason
      isString == r.t = "string"
      isError == instanceof(r, "Error")
      isFail ==
        IF isString THEN FALSE
        ELSE IF isError
          THEN ~instanceof(r, "UserError") \/ instanceof(r, "RuntimeError")
          ELSE TRUE
      err ==
        IF isString THEN Err("UserError", r.msg)
        ELSE IF isError THEN r
        ELSE Err("ArgumentInvalidTypeError", "reason")
  IN [w EXCEPT !.state = IF isFail THEN States.failed ELSE States.canceled,
               !.error = err,
               !.result = Undefined]

\* Mutant: rejects also when the execution is already settled.
__rejectOrLog_always(w, reason) == __reject(w, reason)

\* Mutant: the reason is only logged.
__rejectOrLog_logsOnly(w, reason) == [w EXCEPT !.ignored = TRUE]

\* Mutant: a done execution is rejected as well.
__rejectOrLog_unlessRejected(w, reason) ==
  IF ~isRejected(w) THEN __reject(w, reason)
  ELSE IF Falsy(reason) \/ w.error # reason THEN [w EXCEPT !.ignored = TRUE]
  ELSE w

__rejectOrLog(w, reason) ==
  IF ~isSettled(w) THEN __reject(w, reason)
  ELSE IF Falsy(reason) \/ w.error # reason THEN [w EXCEPT !.ignored = TRUE]
  ELSE w

\* done(result), as a statement of the engine or of a hook.
doneBody(w, r) == [w EXCEPT !.result = r, !.state = States.did]

\* The caller of done() or reject() is noted when it is a hook.
ByHook(w) == [w EXCEPT !.hookActs = @ \/ w.stack # << >>]

\* Mutant: done() does not assert the do state.
done_unasserted(w, r) == Returns(doneBody(ByHook(w), r), Call("done", w))

done(w, r) ==
  LET c == Call("done", w) IN
  IF ~__assertStates(w, States.do) THEN Throws(ByHook(w), c)
  ELSE Returns(doneBody(ByHook(w), r), c)

\* Mutant: wasExecuting is read after __reject, so the finally phase never runs.
reject_late(w, reason) ==
  LET c == Call("reject", w)
      w1 == [__reject(ByHook(w), reason) EXCEPT !.rejectedFrom = w.state]
  IN IF ~__assertStates(w, executingUnsettledStates) THEN Throws(ByHook(w), c)
     ELSE IF ~isExecuting(w1) THEN Push(w1, Frame(RejectDriver, "finally", c))
     ELSE Returns(w1, c)

\* Mutant: reject() does not assert an unsettled state.
reject_unasserted(w, reason) ==
  LET c == Call("reject", w)
      wasExecuting == isExecuting(w)
      w1 == [__reject(ByHook(w), reason) EXCEPT !.rejectedFrom = w.state]
  IN IF ~wasExecuting THEN Push(w1, Frame(RejectDriver, "finally", c))
     ELSE Returns(w1, c)

\* Mutant: reject() runs the finally phase whatever the state was.
reject_eager(w, reason) ==
  LET c == Call("reject", w)
      w1 == [__reject(ByHook(w), reason) EXCEPT !.rejectedFrom = w.state]
  IN IF ~__assertStates(w, executingUnsettledStates) THEN Throws(ByHook(w), c)
     ELSE Push(w1, Frame(RejectDriver, "finally", c))

\* reject(reason): when unstarted, the finally phase is run by this call.
reject(w, reason) ==
  LET c == Call("reject", w)
      wasExecuting == isExecuting(w)
      w1 == [__reject(ByHook(w), reason) EXCEPT !.rejectedFrom = w.state]
  IN IF ~__assertStates(w, executingUnsettledStates) THEN Throws(ByHook(w), c)
     ELSE IF ~wasExecuting THEN Push(w1, Frame(RejectDriver, "finally", c))
     ELSE Returns(w1, c)

(***************************************************************************)
(* The promise.                                                            *)
(***************************************************************************)
NewPromise(w, status, value, settles) ==
  [ id |-> w.promiseSeq + 1, status |-> status, value |-> value,
    settles |-> settles, at |-> w.state ]

\* Mutant: the promise is created pending whatever the state.
__createPromiseControl_pending(w) == NewPromise(w, "pending", Undefined, 0)

__createPromiseControl(w) ==
  IF isFinished(w)
    THEN IF isDone(w)
      THEN NewPromise(w, "fulfilled", w.result, 1)
      ELSE NewPromise(w, "rejected", w.error, 1)
    ELSE NewPromise(w, "pending", Undefined, 0)

\* Mutant: the promise control is not cached.
__getPromiseControl_fresh(w) ==
  [w EXCEPT !.promiseControl = __createPromiseControl(w), !.promiseSeq = @ + 1]

__getPromiseControl(w) ==
  IF w.promiseControl.id # 0 THEN w
  ELSE [w EXCEPT !.promiseControl = __createPromiseControl(w),
                 !.promiseSeq = @ + 1]

promise(w) ==
  LET w1 == __getPromiseControl(w) IN
  Returns([w1 EXCEPT !.promiseReads =
                       Append(@, [id |-> w1.promiseControl.id, at |-> w.state])],
          Call("promise", w))

\* resolve and reject of a promise: only the first call settles it.
Settle(pc, status, value) ==
  IF pc.status = "pending"
    THEN [pc EXCEPT !.status = status, !.value = value, !.settles = @ + 1]
    ELSE [pc EXCEPT !.settles = @ + 1]

(***************************************************************************)
(* The phases.  Each operator is the code of one phase up to the point     *)
(* where it calls a hook or returns; the frame's pc says where the engine  *)
(* goes on when the hook returns.                                          *)
(***************************************************************************)
\* Mutant: the init phase is entered whatever the state.
__executePhaseInit_unguarded(w) ==
  CallHook([w EXCEPT !.state = States.init], "_onPhaseInit")

__executePhaseInit(w) ==
  IF w.state < States.init
    THEN CallHook([w EXCEPT !.state = States.init], "_onPhaseInit")
    ELSE w

_validate(w) == w.validation

\* Mutant: _lockAction does not freeze the action.
_lockAction_noop(w) == w

_lockAction(w) == [w EXCEPT !.locked = TRUE]

\* Mutant: the will phase is entered whatever the state.
__executePhaseWill_unguarded(w) ==
  LET w1 == [w EXCEPT !.state = States.will]
      errors == _validate(w1)
  IN IF errors.isNull \/ Len(errors.errors) = 0
       THEN CallHook(_lockAction(w1), "_onPhaseWill")
       ELSE [__reject(w1, errors.errors[1]) EXCEPT !.invalid = TRUE]

\* Mutant: an invalid action is rejected with the last validation error.
__executePhaseWill_lastError(w) ==
  IF w.state < States.will
    THEN LET w1 == [w EXCEPT !.state = States.will]
             errors == _validate(w1)
         IN IF errors.isNull \/ Len(errors.errors) = 0
              THEN CallHook(_lockAction(w1), "_onPhaseWill")
              ELSE [__reject(w1, errors.errors[Len(errors.errors)]) EXCEPT !.invalid = TRUE]
    ELSE w

__executePhaseWill(w) ==
  IF w.state < States.will
    THEN LET w1 == [w EXCEPT !.state = States.will]
             errors == _validate(w1)
         IN IF errors.isNull \/ Len(errors.errors) = 0
              THEN CallHook(_lockAction(w1), "_onPhaseWill")
              ELSE [__reject(w1, errors.errors[1]) EXCEPT !.invalid = TRUE]
    ELSE w

\* Mutant: the do phase is entered whatever the state.
__executePhaseDo_unguarded(w) ==
  CallHook([w EXCEPT !.state = States.do], "_onPhaseDo")

\* __executePhaseDo up to the call of _onPhaseDo; `ret` is what it returns
\* when the phase is skipped.
__executePhaseDo(w) ==
  IF w.state < States.do
    THEN CallHook([w EXCEPT !.state = States.do], "_onPhaseDo")
    ELSE Goto(SetTop(w, [Top(w) EXCEPT !.ret = "null"]), "doReturned")

\* Mutant: _doDefault is called whether the execution is settled or not.
__executePhaseDoDefaultAsync_unguarded(w) ==
  CallHook(Goto(w, "afterDefaultAsync"), "_doDefault")

\* __executePhaseDoDefaultAsync up to the call of _doDefault.
__executePhaseDoDefaultAsync(w) ==
  IF ~isSettled(w)
    THEN CallHook(Goto(w, "afterDefaultAsync"), "_doDefault")
    ELSE Goto(SetTop(w, [Top(w) EXCEPT !.ret = "null"]), "doReturned")

\* __executePhaseDoDefaultAsync after _doDefault returned `ret`.
afterDefaultAsync(w) ==
  IF ~isSettled(w)
    THEN Goto(w, "doReturned")
    ELSE Goto(SetTop(w, [Top(w) EXCEPT !.ret = "null"]), "doReturned")

\* The engine keeps no reference to the promise _onPhaseDo returned and
\* attaches no reaction to it.
Drop(w) ==
  IF Top(w).ret = "promise" THEN [w EXCEPT !.dropped = "pending"] ELSE w

\* __executePhaseDo after _onPhaseDo returned `ret`.
afterDo(w) ==
  IF w.isSync
    THEN IF ~isSettled(w)
           THEN CallHook(Goto(Drop(w), "afterDefaultSync"), "_doDefault")
           ELSE Goto(SetTop(Drop(w), [Top(w) EXCEPT !.ret = "null"]), "doReturned")
    ELSE IF Top(w).ret = "null" \/ isSettled(w)
           THEN __executePhaseDoDefaultAsync(Drop(w))
           ELSE Goto(SetTop(w, [Top(w) EXCEPT !.ret = "then"]), "doReturned")

\* Mutant: the finally phase cancels an unsettled execution.
__executePhaseFinally_autoCancel(w) ==
  IF w.state < States.finished
    THEN IF isSettled(w)
           THEN CallHook(Goto(w, "afterFinally"), "_onPhaseFinally")
           ELSE CallHook(Goto(__reject(w, Undefined), "afterFinally"), "_onPhaseFinally")
    ELSE Goto(w, "end")

\* Mutant: the finally phase does not complete an unsettled execution.
__executePhaseFinally_noAutoDone(w) ==
  IF w.state < States.finished
    THEN CallHook(Goto(w, "afterFinally"), "_onPhaseFinally")
    ELSE Goto(w, "end")

\* __executePhaseFinally up to the call of _onPhaseFinally.  An unsettled
\* execution is completed by done(), which throws outside the do state.
__executePhaseFinally(w) ==
  IF w.state < States.finished
    THEN IF isSettled(w)
           THEN CallHook(Goto(w, "afterFinally"), "_onPhaseFinally")
           ELSE IF __assertStates(w, States.do)
             THEN CallHook(Goto(doneBody(w, Undefined), "afterFinally"), "_onPhaseFinally")
             ELSE Goto(w, "throw")
    ELSE Goto(w, "end")

\* Mutant: the finished bit replaces the state instead of being added to it.
afterFinally_assign(w) ==
  LET w1 == [w EXCEPT !.state = States.finished]
      pc == w1.promiseControl
  IN Goto(
       IF pc.id # 0
         THEN IF isDone(w1)
           THEN [w1 EXCEPT !.promiseControl = Settle(pc, "fulfilled", w1.result)]
           ELSE [w1 EXCEPT !.promiseControl = Settle(pc, "rejected", w1.error)]
         ELSE w1,
       "end")

\* __executePhaseFinally after _onPhaseFinally returned or threw.
afterFinally(w) ==
  LET w1 == [w EXCEPT !.state = BitOr(@, States.finished)]
      pc == w1.promiseControl
  IN Goto(
       IF pc.id # 0
         THEN IF isDone(w1)
           THEN [w1 EXCEPT !.promiseControl = Settle(pc, "fulfilled", w1.result)]
           ELSE [w1 EXCEPT !.promiseControl = Settle(pc, "rejected", w1.error)]
         ELSE w1,
       "end")

(***************************************************************************)
(* The drivers: __executeSyncAction, __executeAsyncAction, executeWill,    *)
(* and the two promise reactions of the asynchronous chain.                *)
(***************************************************************************)
\* The promise chain after the do phase returned `ret` to the driver:
\* promiseFinished.then(boundFinally, boundFinally).
Chained(w, ret) ==
  [w EXCEPT !.chain =
     Chain(IF ret = "then" THEN "awaitDo"
           ELSE IF ret = "promise" THEN "awaitDefault"
           ELSE "finally",
           Undefined, IF @.stage = "none" THEN "execute" ELSE @.via)]

\* Mutant: the asynchronous driver schedules no finally after a caught error
\* (promiseFinished is undefined there).
catch_unchained(w) ==
  LET d == Top(w).driver
      w1 == __rejectOrLog(w, Top(w).ex)
      w2 == SetTop(w1, [Top(w1) EXCEPT !.ex = Undefined])
  IN IF d = SyncDriver THEN Goto(w2, "finally") ELSE Goto(w2, "end")

\* Mutant: the synchronous driver lets the error through.
catch_rethrows(w) ==
  LET d == Top(w).driver
      w1 == __rejectOrLog(w, Top(w).ex)
      w2 == SetTop(w1, [Top(w1) EXCEPT !.ex = Undefined])
  IN IF d = SyncDriver THEN Goto(w, "throw")
     ELSE IF d = AsyncDriver THEN Goto(Chained(w2, "null"), "end")
     ELSE Goto(w2, "end")

\* The catch block of a driver.
catch(w) ==
  LET d == Top(w).driver
      w1 == __rejectOrLog(w, Top(w).ex)
      w2 == SetTop(w1, [Top(w1) EXCEPT !.ex = Undefined])
  IN IF d = SyncDriver THEN Goto(w2, "finally")
     ELSE IF d = AsyncDriver THEN Goto(Chained(w2, "null"), "end")
     ELSE Goto(w2, "end")

\* Mutant: the synchronous driver runs the finally phase only from its catch block.
doReturned_noFinally(w) ==
  LET d == Top(w).driver
      ret == Top(w).ret
      w1 == SetTop(w, [Top(w) EXCEPT !.ret = "null"])
  IN IF d = SyncDriver THEN Goto(w1, "end")
     ELSE Goto(Chained(w1, ret), "end")

\* Mutant: the asynchronous driver runs the finally phase itself.
doReturned_inline(w) ==
  LET w1 == SetTop(w, [Top(w) EXCEPT !.ret = "null"])
  IN Goto(w1, "finally")

\* The do phase returned to its caller.
doReturned(w) ==
  LET d == Top(w).driver
      ret == Top(w).ret
      w1 == SetTop(w, [Top(w) EXCEPT !.ret = "null"])
  IN IF d = SyncDriver THEN Goto(w1, "finally")
     ELSE Goto(Chained(w1, ret), "end")

\* Mutant: __callInside leaves the guard set when the driver returns.
end_keepsGuard(w) ==
  LET f == Top(w)
      w1 == [w EXCEPT !.stack = Tail(@)]
  IN IF f.call.op = "none" THEN w1 ELSE Returns(w1, f.call)

\* The driver returns: __callInside clears the guard, the call completes.
end(w) ==
  LET f == Top(w)
      w1 == [w EXCEPT !.stack = Tail(@)]
      w2 == IF f.driver \in InsideDrivers THEN [w1 EXCEPT !.isInside = FALSE] ELSE w1
  IN IF f.call.op = "none" THEN w2 ELSE Returns(w2, f.call)

\* An error leaves the driver uncaught: __callInside does not clear the guard.
abort(w) ==
  LET f == Top(w)
      w1 == [w EXCEPT !.stack = Tail(@)]
  IN IF f.call.op = "none" THEN w1 ELSE Throws(w1, f.call)

\* One step of the engine at the top frame's pc.
Step(w) ==
  LET f == Top(w) IN
  CASE f.pc = "init" -> __executePhaseInit(Goto(w, "will"))
    [] f.pc = "will" ->
         __executePhaseWill(Goto(w, IF f.driver = WillDriver THEN "end" ELSE "do"))
    [] f.pc = "do" -> __executePhaseDo(Goto(w, "afterDo"))
    [] f.pc = "afterDo" -> afterDo(w)
    [] f.pc = "afterDefaultSync" ->
         Goto(SetTop(w, [Top(w) EXCEPT !.ret = "null"]), "doReturned")
    [] f.pc = "defaultAsync" -> __executePhaseDoDefaultAsync(w)
    [] f.pc = "afterDefaultAsync" -> afterDefaultAsync(w)
    [] f.pc = "doReturned" -> doReturned(w)
    [] f.pc = "catch" -> catch(w)
    [] f.pc = "finally" -> __executePhaseFinally(w)
    [] f.pc = "afterFinally" -> afterFinally(w)
    [] f.pc = "end" -> end(w)
    [] f.pc = "throw" -> abort(w)

\* The engine runs until it calls a hook or the outermost call returns.
RECURSIVE Run(_)
Run(w) ==
  IF w.stack = << >> \/ Top(w).inHook THEN w
  ELSE CHOOSE r \in {Run(x) : x \in {Step(w)}} : TRUE

\* The engine runs from world w and the state becomes what it leaves.
Turn(w) == \E u \in {w} : \E v \in {Run(u)} : Becomes(v)

(***************************************************************************)
(* The public entry points.                                                *)
(***************************************************************************)
\* Mutant: a refused call clears the guard.
__callInside_clearsOnRefusal(w, f) ==
  IF w.isInside
    THEN IF f.call.op = "none" THEN w ELSE Throws([w EXCEPT !.isInside = FALSE], f.call)
    ELSE Push([w EXCEPT !.isInside = TRUE], f)

\* Mutant: __callInside does not test the guard.
__callInside_unguarded(w, f) == Push([w EXCEPT !.isInside = TRUE], f)

\* __callInside(fun), with fun the code of frame f.
__callInside(w, f) ==
  IF w.isInside
    THEN IF f.call.op = "none" THEN w ELSE Throws(w, f.call)
    ELSE Push([w EXCEPT !.isInside = TRUE], f)

\* Mutant: execute() does not test the state.
execute_unchecked(w) ==
  LET c == Call("execute", w)
      w1 == __callInside(w, Frame(IF w.isSync THEN SyncDriver ELSE AsyncDriver, "init", c))
  IN [w1 EXCEPT !.executed = @ \/ ~w.isInside]

execute(w) ==
  LET c == Call("execute", w)
      w1 == __callInside(w, Frame(IF w.isSync THEN SyncDriver ELSE AsyncDriver, "init", c))
  IN IF w.state > States.will THEN Throws(w, c)
     ELSE [w1 EXCEPT !.executed = @ \/ ~w.isInside]

\* Mutant: executeWill() runs the whole execution.
executeWill_executes(w) ==
  LET c == Call("executeWill", w) IN
  IF w.state > States.will THEN Throws(w, c)
  ELSE __callInside(w, Frame(IF w.isSync THEN SyncDriver ELSE AsyncDriver, "init", c))

executeWill(w) ==
  LET c == Call("executeWill", w) IN
  IF w.state > States.will THEN Throws(w, c)
  ELSE __callInside(w, Frame(WillDriver, "init", c))

\* A public call is made and runs until it returns or reaches a hook.
Invoke(w) == Turn([w EXCEPT !.ops = @ + 1])

\* The caller is outside the execution, or a hook the engine is suspended in;
\* it has made fewer than n calls.
CanCall(n) == ops < n /\ (IF stack = << >> THEN TRUE ELSE Top(World).inHook)

ExecuteBy(n) == CanCall(n) /\ Invoke(execute(World))

ExecuteWillBy(n) == CanCall(n) /\ Invoke(executeWill(World))

DoneBy(n) == CanCall(n) /\ \E r \in Results : Invoke(done(World, r))

RejectBy(n, reasons) == CanCall(n) /\ \E reason \in reasons : Invoke(reject(World, reason))

PromiseBy(n) == CanCall(n) /\ Invoke(promise(World))

Execute == ExecuteBy(MaxOps)

ExecuteWill == ExecuteWillBy(MaxOps)

Done == DoneBy(MaxOps)

Reject == RejectBy(MaxOps, Reasons)

Promise == PromiseBy(MaxOps)

(***************************************************************************)
(* The hooks: user code the engine is suspended in.                        *)
(***************************************************************************)
\* The hook returns; _onPhaseDo and _doDefault may return a pending promise.
HookReturns ==
  /\ InHook(World)
  /\ \E ret \in {"null", "promise"} :
       /\ ret = "promise" => Top(World).hook \in {"_onPhaseDo", "_doDefault"}
       /\ Turn(SetTop(World, [Top(World) EXCEPT !.inHook = FALSE, !.ret = ret]))

\* The hook throws ex: to the catch block of the driver, to the catch block
\* of __executePhaseFinally, or into the promise of the reaction it runs in.
\* Mutant: an error thrown by the finally hook leaves __executePhaseFinally.
Thrown_finallyPropagates(w, ex) ==
  LET f == Top(w)
      g == [f EXCEPT !.inHook = FALSE, !.ret = "null"]
      w1 == [w EXCEPT !.hookActs = TRUE]
  IN IF f.hook = "_onPhaseFinally" THEN SetTop(w1, [g EXCEPT !.pc = "throw"])
     ELSE IF f.driver = DefaultReaction
       THEN [SetTop(w1, [g EXCEPT !.pc = "end"]) EXCEPT !.chain = Chain("catch", ex, "_doDefault")]
       ELSE SetTop(w1, [g EXCEPT !.pc = "catch", !.ex = ex])

Thrown(w, ex) ==
  LET f == Top(w)
      g == [f EXCEPT !.inHook = FALSE, !.ret = "null"]
      w1 == [w EXCEPT !.hookActs = TRUE]
  IN IF f.hook = "_onPhaseFinally" THEN SetTop(w1, g)
     ELSE IF f.driver = DefaultReaction
       THEN [SetTop(w1, [g EXCEPT !.pc = "end"]) EXCEPT !.chain = Chain("catch", ex, "_doDefault")]
       ELSE SetTop(w1, [g EXCEPT !.pc = "catch", !.ex = ex])

HookThrowsOneOf(reasons) ==
  /\ InHook(World)
  /\ \E ex \in reasons : Turn(Thrown(World, ex))

HookThrows == HookThrowsOneOf(Reasons)

(***************************************************************************)
(* The promise chain of an asynchronous action:                            *)
(*   Promise.resolve(__executePhaseDo()).catch(__rejectOrLog)              *)
(*                                      .then(boundFinally, boundFinally)  *)
(* Reactions run as microtasks, when no call is on the stack.              *)
(***************************************************************************)
\* The promise returned by _onPhaseDo fulfils: __executePhaseDoDefaultAsync runs.
DoPromiseFulfils ==
  /\ stack = << >>
  /\ chain.stage = "awaitDo"
  /\ Turn(Push([World EXCEPT !.chain = Chain("reacting", Undefined, "_onPhaseDo")],
               Frame(DefaultReaction, "defaultAsync", NoCall)))

DoPromiseRejectsWith(reasons) ==
  /\ stack = << >>
  /\ chain.stage = "awaitDo"
  /\ \E reason \in reasons :
       Turn([World EXCEPT !.chain = Chain("catch", reason, "_onPhaseDo")])

DoPromiseRejects == DoPromiseRejectsWith(Reasons)

\* The promise returned by _doDefault settles.
DefaultPromiseFulfils ==
  /\ stack = << >>
  /\ chain.stage = "awaitDefault"
  /\ Turn([World EXCEPT !.chain = Chain("finally", Undefined, "_doDefault")])

DefaultPromiseRejectsWith(reasons) ==
  /\ stack = << >>
  /\ chain.stage = "awaitDefault"
  /\ \E reason \in reasons :
       Turn([World EXCEPT !.chain = Chain("catch", reason, "_doDefault")])

DefaultPromiseRejects == DefaultPromiseRejectsWith(Reasons)

\* A promise the engine ignored settles: no reaction of the engine is attached.
DroppedPromiseSettles ==
  /\ stack = << >>
  /\ dropped = "pending"
  /\ \E outcome \in {"fulfilled", "rejected"} :
       Turn([World EXCEPT !.dropped = outcome])

\* The reaction .catch(__rejectOrLog).
CatchReaction ==
  /\ stack = << >>
  /\ chain.stage = "catch"
  /\ Turn([__rejectOrLog(World, chain.reason)
             EXCEPT !.chain = Chain("finally", Undefined, "catch")])

\* The reaction boundFinally = __callInside.bind(this, __executePhaseFinally).
boundFinally(w) ==
  __callInside([w EXCEPT !.chain = Chain("done", @.reason, @.via)],
               Frame(FinallyReaction, "finally", NoCall))

FinallyContinuation ==
  /\ stack = << >>
  /\ chain.stage = "finally"
  /\ Turn(boundFinally(World))

(***************************************************************************)
(* The parameter validator (ParameterValidator.js).  A JavaScript array is *)
(* a sequence, an object used as a map is a function whose entries say     *)
(* whether the key is present.                                             *)
(***************************************************************************)
\* The names of the parameters, and the keys paramDefn.errors can have.
ParamNames == {"p1", "p2"}

ErrorKeys == ParamNames \cup {"other"}

Absent == [present |-> FALSE, list |-> << >>]

Entry(list) == [present |-> TRUE, list |-> list]

MsgInvalid == "This prompt value is of an invalid value"

MsgMandatory == "This prompt is mandatory"

\* An untrusted value: undefined, a string, or an array of strings.
UUndefined == [t |-> "undefined", s |-> "", items |-> << >>]

UString(x) == [t |-> "string", s |-> x, items |-> << >>]

UArray(xs) == [t |-> "array", s |-> "", items |-> xs]

\* untrustedValue == '': the empty string, and an array whose toString() is
\* the empty string.
LooseEqualsEmpty(u) ==
  \/ u.t = "string" /\ u.s = ""
  \/ u.t = "array" /\ (u.items = << >> \/ u.items = <<Str("")>>)

\* An entry of currentParameter.values.
ParamValue(v, manuallySet) ==
  [label |-> v, value |-> v, selected |-> FALSE, manuallySet |-> manuallySet]

addErrorToParameter(pd, paramName, message) ==
  LET errorList == IF pd.errors[paramName].present THEN pd.errors[paramName].list ELSE << >>
  IN [pd EXCEPT !.errors[paramName] = Entry(Append(errorList, message))]

\* Mutant: removeError keeps the entry.
removeError_keeps(pd, paramName) == pd

removeError(pd, paramName) ==
  IF pd.errors[paramName].present THEN [pd EXCEPT !.errors[paramName] = Absent] ELSE pd

isValidValue(parameterValues, computedValue) ==
  \E i \in 1..Len(parameterValues) : computedValue = parameterValues[i].value

isValidValues(parameterValues, computedValue) ==
  \A i \in 1..Len(computedValue) : isValidValue(parameterValues, computedValue[i])

\* The first index k at which parameterValue == values[k].value, or 0.
RECURSIVE FirstMatch(_, _, _)
FirstMatch(values, parameterValue, k) ==
  IF k > Len(values) THEN 0
  ELSE IF parameterValue = values[k].value THEN k
  ELSE FirstMatch(values, parameterValue, k + 1)

\* untrustedValue[0], undefined for an empty array.
First(xs) == IF Len(xs) = 0 THEN Undefined ELSE xs[1]

setSelectedValue(currentParameter, untrustedValue, defaults) ==
  LET values == currentParameter.values
      default == defaults[currentParameter.name]
  IN IF Len(values) = 0 \/ (Len(values) = 1 /\ values[1].manuallySet)
       THEN [currentParameter EXCEPT !.values =
              <<[label |-> First(untrustedValue), value |-> First(untrustedValue),
                 selected |-> TRUE, manuallySet |-> TRUE]>>]
     ELSE IF currentParameter.multiSelect
       THEN LET parameterValue ==
                  IF Len(untrustedValue) = 1 /\ untrustedValue[1] = Str("") /\ default.present
                    THEN default.list ELSE untrustedValue
            IN [currentParameter EXCEPT !.values =
                 [k \in 1..Len(values) |->
                    IF \E i \in 1..Len(parameterValue) : parameterValue[i] = values[k].value
                      THEN [values[k] EXCEPT !.selected = TRUE] ELSE values[k]]]
     ELSE LET parameterValue ==
                IF First(untrustedValue) = Str("") /\ default.present
                  THEN First(default.list) ELSE First(untrustedValue)
              k == FirstMatch(values, parameterValue, 1)
          IN IF k = 0 THEN currentParameter
             ELSE [currentParameter EXCEPT !.values[k].selected = TRUE]

\* paramDefn.getParameter(paramName): the parameter of that name.
getParameter(pd, paramName) == pd.parameters[paramName]

validateSingleParameter(pd, paramName, untrustedValue, defaults) ==
  LET currentParameter == getParameter(pd, paramName)
      pd1 == removeError(pd, currentParameter.name)
      pd2 ==
        IF currentParameter.mandatory
          THEN IF untrustedValue.t = "undefined"
                 THEN addErrorToParameter(pd1, paramName, MsgInvalid)
               ELSE IF LooseEqualsEmpty(untrustedValue)
                 THEN addErrorToParameter(pd1, paramName, MsgMandatory)
               ELSE pd1
          ELSE pd1
      values ==
        IF untrustedValue.t = "undefined" THEN <<Str("")>>
        ELSE IF currentParameter.multiSelect THEN untrustedValue.items
        ELSE <<Str(untrustedValue.s)>>
      pd3 ==
        IF currentParameter.strict /\ ~isValidValues(currentParameter.values, values)
          THEN addErrorToParameter(pd2, paramName, MsgInvalid)
          ELSE pd2
      restored ==
        [currentParameter EXCEPT !.values =
          [k \in 1..Len(currentParameter.values) |->
             [currentParameter.values[k] EXCEPT !.selected = FALSE]]]
  IN [pd3 EXCEPT !.parameters[paramName] = setSelectedValue(restored, values, defaults)]

\* The inner loop of checkParametersErrors over group i, from parameter j.
RECURSIVE GroupHasErrors(_, _, _)
GroupHasErrors(pd, i, j) ==
  IF j > Len(pd.parameterGroups[i]) THEN FALSE
  ELSE IF pd.errors[pd.parameterGroups[i][j]].present THEN TRUE
  ELSE GroupHasErrors(pd, i, j + 1)

\* The outer loop of checkParametersErrors from group i: hasErrors and
\* paramDefn.promptNeeded.
RECURSIVE CheckGroups(_, _, _)
CheckGroups(pd, i, hasErrors) ==
  IF i > Len(pd.parameterGroups) THEN [pd |-> pd, hasErrors |-> hasErrors]
  ELSE IF GroupHasErrors(pd, i, 1)
    THEN CheckGroups(IF ~pd.promptNeeded THEN [pd EXCEPT !.promptNeeded = TRUE] ELSE pd,
                     i + 1, TRUE)
  ELSE CheckGroups(pd, i + 1, hasErrors)

\* Mutant: promptNeeded is not lowered when there are no errors.
checkParametersErrors_onlyRaises(pd) == CheckGroups(pd, 1, FALSE).pd

checkParametersErrors(pd) ==
  LET r == CheckGroups(pd, 1, FALSE)
  IN IF ~r.hasErrors THEN [r.pd EXCEPT !.promptNeeded = FALSE] ELSE r.pd

\* The parameter definitions the validator is given: p1 of every kind, with
\* no values or two; p2 mandatory and strict with one value; the groups; the
\* errors recorded before; promptNeeded either way.
ValueLists == { << >>, <<ParamValue(Str("a"), FALSE), ParamValue(Str("b"), FALSE)>> }

GroupLayouts ==
  { << <<"p1">>, <<"p2">> >>, << <<"p1", "p2">> >>, << << >>, <<"p1">> >> }

ErrorMaps ==
  { [k \in ErrorKeys |-> Absent],
    [k \in ErrorKeys |-> IF k = "p2" THEN Entry(<<MsgMandatory>>) ELSE Absent],
    [k \in ErrorKeys |-> IF k = "other" THEN Entry(<<MsgInvalid>>) ELSE Absent] }

Parameter(name, mandatory, multiSelect, strict, values) ==
  [name |-> name, mandatory |-> mandatory, multiSelect |-> multiSelect,
   strict |-> strict, values |-> values]

ParamDefns ==
  { [ loaded |-> TRUE,
      parameterGroups |-> g,
      parameters |-> [n \in ParamNames |->
        IF n = "p1" THEN Parameter("p1", m, ms, st, vs)
        ELSE Parameter("p2", TRUE, FALSE, TRUE, <<ParamValue(Str("a"), FALSE)>>)],
      errors |-> e,
      promptNeeded |-> pn ] :
    g \in GroupLayouts, m \in BOOLEAN, ms \in BOOLEAN, st \in BOOLEAN,
    vs \in ValueLists, e \in ErrorMaps, pn \in BOOLEAN }

NoParamDefn ==
  [ loaded |-> FALSE,
    parameterGroups |-> << >>,
    parameters |-> [n \in ParamNames |-> Parameter(n, FALSE, FALSE, FALSE, << >>)],
    errors |-> [k \in ErrorKeys |-> Absent],
    promptNeeded |-> FALSE ]

NoDefaultValues == [n \in ParamNames |-> Absent]

DefaultValueMaps ==
  { NoDefaultValues,
    [n \in ParamNames |-> IF n = "p1" THEN Entry(<<Str("a")>>) ELSE Absent] }

\* What the prompt passes as untrusted value: a string or undefined for a
\* single-value parameter, an array or undefined for a multi-value one.
UntrustedValues(parameter) ==
  IF parameter.multiSelect
    THEN { UUndefined, UArray(<< >>), UArray(<<Str("a")>>), UArray(<<Str("a"), Str("c")>>) }
    ELSE { UUndefined, UString(""), UString("a"), UString("c") }

\* A validator call: `was` is paramDefn.promptNeeded before the call.
NoValidation ==
  [op |-> "none", paramName |-> "", untrustedValue |-> UUndefined, was |-> FALSE]

\* The names of the parameters in the groups.
Grouped(pd) ==
  UNION { { pd.parameterGroups[i][j] : j \in 1..Len(pd.parameterGroups[i]) } :
          i \in 1..Len(pd.parameterGroups) }

\* The prompt receives a parameter definition and the default values.
LoadParamDefn ==
  /\ ~paramDefn.loaded
  /\ paramDefn' \in ParamDefns
  /\ defaultValues' \in DefaultValueMaps
  /\ UNCHANGED << validated, validations, executionVars, clickVars, pluginVars, roleVars >>

ValidateSingleParameter ==
  /\ paramDefn.loaded
  /\ validations < MaxValidations
  /\ \E paramName \in Grouped(paramDefn) :
       \E untrustedValue \in UntrustedValues(getParameter(paramDefn, paramName)) :
         /\ paramDefn' = validateSingleParameter(paramDefn, paramName, untrustedValue, defaultValues)
         /\ validated' = [op |-> "validateSingleParameter", paramName |-> paramName,
                          untrustedValue |-> untrustedValue,
                          was |-> paramDefn.promptNeeded]
  /\ validations' = validations + 1
  /\ UNCHANGED << defaultValues, executionVars, clickVars, pluginVars, roleVars >>

CheckParametersErrors ==
  /\ paramDefn.loaded
  /\ validations < MaxValidations
  /\ paramDefn' = checkParametersErrors(paramDefn)
  /\ validated' = [NoValidation EXCEPT !.op = "checkParametersErrors",
                                       !.was = paramDefn.promptNeeded]
  /\ validations' = validations + 1
  /\ UNCHANGED << defaultValues, executionVars, clickVars, pluginVars, roleVars >>

(***************************************************************************)
(* The plugin (plugin-handler/plugin.js).                                  *)
(***************************************************************************)
\* The id _guid() gave the plugin.
PluginId == "PLUGIN"

\* The free identifier `plugin` in onUnregister is declared nowhere in the
\* file: it resolves to a global of that name, if the page has one, and
\* reading it throws a ReferenceError otherwise.
GlobalPlugins == {"unresolvable", "window.plugin"}

\* config.pluginHandler: a PentahoPluginHandler, missing, or something else.
PluginHandlers == {"PentahoPluginHandler", "missing", "other"}

PluginConfigs ==
  [onRegister : BOOLEAN, onUnregister : BOOLEAN, pluginHandler : PluginHandlers]

NoPlugin ==
  [ created |-> FALSE, threw |-> FALSE, id |-> "",
    config |-> [onRegister |-> FALSE, onUnregister |-> FALSE, pluginHandler |-> "missing"] ]

\* init(config): throws unless config.pluginHandler is a PentahoPluginHandler.
init(config) ==
  IF config.pluginHandler = "missing" \/ config.pluginHandler # "PentahoPluginHandler"
    THEN [NoPlugin EXCEPT !.threw = TRUE, !.config = config]
    ELSE [created |-> TRUE, threw |-> FALSE, id |-> PluginId, config |-> config]

\* What a call did: whether the callback was called, with which `this` and
\* argument, and whether the call threw.
PluginCall(method, called, thisArg, arg, threw) ==
  [method |-> method, called |-> called, thisArg |-> thisArg, arg |-> arg, threw |-> threw]

\* onRegister(plugin)
onRegister(this, arg) ==
  IF this.config.onRegister
    THEN PluginCall("onRegister", TRUE, arg, arg, FALSE)
    ELSE PluginCall("onRegister", FALSE, "none", "none", FALSE)

\* onUnregister(): it has no parameter, so `plugin` is the free identifier.
onUnregister(this, free) ==
  IF this.config.onUnregister
    THEN IF free = "unresolvable"
           THEN PluginCall("onUnregister", FALSE, "none", "none", TRUE)
           ELSE PluginCall("onUnregister", TRUE, free, free, FALSE)
    ELSE PluginCall("onUnregister", FALSE, "none", "none", FALSE)

\* new PentahoPlugin(config)
CreatePlugin ==
  /\ ~plugin.created
  /\ ~plugin.threw
  /\ \E config \in PluginConfigs : plugin' = init(config)
  /\ UNCHANGED << globalPlugin, pluginCalls, executionVars, clickVars, validatorVars, roleVars >>

\* A script of the page defines a global variable named plugin.
PageDefinesPlugin ==
  /\ globalPlugin = "unresolvable"
  /\ globalPlugin' \in GlobalPlugins \ {"unresolvable"}
  /\ UNCHANGED << plugin, pluginCalls, executionVars, clickVars, validatorVars, roleVars >>

\* The plugin handler calls plugin.onRegister(plugin).
OnRegister ==
  /\ plugin.created
  /\ Len(pluginCalls) < MaxPluginCalls
  /\ pluginCalls' = Append(pluginCalls, onRegister(plugin, plugin.id))
  /\ UNCHANGED << plugin, globalPlugin, executionVars, clickVars, validatorVars, roleVars >>

\* The plugin handler calls plugin.onUnregister(plugin).
OnUnregister ==
  /\ plugin.created
  /\ Len(pluginCalls) < MaxPluginCalls
  /\ pluginCalls' = Append(pluginCalls, onUnregister(plugin, globalPlugin))
  /\ UNCHANGED << plugin, globalPlugin, executionVars, clickVars, validatorVars, roleVars >>

(***************************************************************************)
(* The external visual role property (pentaho/visual/role/ExternalProperty)*)
(* The schema data has two columns, of type string and number.             *)
(***************************************************************************)
\* schemaData.getColumnType(actualIndex), resolved.
ColumnType(actualIndex) == IF actualIndex = 1 THEN "string" ELSE "number"

\* fieldDataType.isSubtypeOf(externalElementDataType): every type is a
\* subtype of "element".
isSubtypeOf(fieldDataType, elementType) ==
  fieldDataType = elementType \/ elementType = "element"

\* The entries a strategy-application list can hold.  `validation` is what
\* strategyType.validateApplication returns for the data and the fields.
StrategyApplications ==
  [ externalMode : [ dataType : [isList : BOOLEAN, elementType : {"string", "element"}],
                     isContinuous : BOOLEAN ],
    validation : { [isValid |-> FALSE, addsFields |-> FALSE],
                   [isValid |-> TRUE, addsFields |-> FALSE],
                   [isValid |-> TRUE, addsFields |-> TRUE] } ]

\* The lists of at most n entries.
RECURSIVE ApplicationLists(_)
ApplicationLists(n) ==
  IF n = 0 THEN { << >> }
  ELSE LET shorter == ApplicationLists(n - 1)
       IN shorter \cup
          { Append(l, a) : l \in {x \in shorter : Len(x) = n - 1}, a \in StrategyApplications }

\* externalMapping.fieldIndexes is null when there is no data or a field
\* name is invalid; here null is the empty sequence with isNull set.
FieldIndexes ==
  { [isNull |-> TRUE, indexes |-> << >>],
    [isNull |-> FALSE, indexes |-> <<1>>],
    [isNull |-> FALSE, indexes |-> <<2>>],
    [isNull |-> FALSE, indexes |-> <<1, 2>>] }

ExternalMappings ==
  [ bound : {TRUE}, hasFields : BOOLEAN, fieldIndexes : FieldIndexes,
    isCategoricalFixed : BOOLEAN ]

NoExternalMapping ==
  [ bound |-> FALSE, hasFields |-> FALSE,
    fieldIndexes |-> [isNull |-> TRUE, indexes |-> << >>],
    isCategoricalFixed |-> FALSE ]

\* null, as a strategy application; `entry` is the index in the list of the
\* entry a result was created from.
NullApplication ==
  [ isNull |-> TRUE, entry |-> 0, externalFieldIndexes |-> << >>, addsFields |-> FALSE ]

NotSelected == [called |-> FALSE, result |-> NullApplication]

__validateStrategyApplication(list, m, externalFieldIndexes) ==
  LET strategyApplication == list[m]
      externalDataType == strategyApplication.externalMode.dataType
      externalFieldCount == Len(externalFieldIndexes)
  IN IF ~externalDataType.isList /\ externalFieldCount > 1 THEN NullApplication
     ELSE IF \E i \in 1..externalFieldCount :
               ~isSubtypeOf(ColumnType(externalFieldIndexes[i]), externalDataType.elementType)
       THEN NullApplication
     ELSE IF ~strategyApplication.validation.isValid THEN NullApplication
     ELSE [ isNull |-> FALSE, entry |-> m,
            externalFieldIndexes |-> externalFieldIndexes,
            addsFields |-> strategyApplication.validation.addsFields ]

\* Mutant: the loop looks at every entry, whatever isCategoricalFixed is.
RECURSIVE SelectFrom_everyEntry(_, _, _)
SelectFrom_everyEntry(list, mapping, m) ==
  IF m > Len(list) THEN NullApplication
  ELSE LET valid == __validateStrategyApplication(list, m, mapping.fieldIndexes.indexes)
       IN IF ~valid.isNull THEN valid ELSE SelectFrom_everyEntry(list, mapping, m + 1)

\* The loop of selectAdaptationStrategyOn from entry m on.
RECURSIVE SelectFrom(_, _, _)
SelectFrom(list, mapping, m) ==
  IF m > Len(list) THEN NullApplication
  ELSE IF ~mapping.isCategoricalFixed \/ ~list[m].externalMode.isContinuous
    THEN LET valid == __validateStrategyApplication(list, m, mapping.fieldIndexes.indexes)
         IN IF ~valid.isNull THEN valid ELSE SelectFrom(list, mapping, m + 1)
  ELSE SelectFrom(list, mapping, m + 1)

selectAdaptationStrategyOn(list, mapping) ==
  IF ~mapping.hasFields THEN NullApplication
  ELSE IF mapping.fieldIndexes.isNull THEN NullApplication
  ELSE SelectFrom(list, mapping, 1)

\* The property gets its strategies and the model adapter its mapping.
BindRole ==
  /\ ~externalMapping.bound
  /\ strategyApplicationList' \in ApplicationLists(MaxApplications)
  /\ externalMapping' \in ExternalMappings
  /\ UNCHANGED << selected, executionVars, clickVars, validatorVars, pluginVars >>

SelectAdaptationStrategyOn ==
  /\ externalMapping.bound
  /\ ~selected.called
  /\ selected' = [called |-> TRUE,
                  result |-> selectAdaptationStrategyOn(strategyApplicationList, externalMapping)]
  /\ UNCHANGED << strategyApplicationList, externalMapping, executionVars, clickVars,
                  validatorVars, pluginVars >>

(***************************************************************************)
(* The specification.                                                      *)
(***************************************************************************)
Init ==
  /\ state = States.unstarted
  /\ isInside = FALSE
  /\ result = Undefined
  /\ error = Null
  /\ promiseControl = NoPromiseControl
  /\ isSync \in BOOLEAN
  /\ validation \in Validations
  /\ locked = FALSE
  /\ stack = << >>
  /\ chain = NoChain
  /\ promiseSeq = 0
  /\ promiseReads = << >>
  /\ hookLog = << >>
  /\ last = NoCall
  /\ executed = FALSE
  /\ rejectedFrom = 0
  /\ invalid = FALSE
  /\ ignored = FALSE
  /\ hookActs = FALSE
  /\ dropped = "none"
  /\ ops = 0
  /\ triclick_clicks = 0
  /\ triclick_start = 0
  /\ clickLog = << >>
  /\ paramDefn = NoParamDefn
  /\ defaultValues = NoDefaultValues
  /\ validated = NoValidation
  /\ validations = 0
  /\ plugin = NoPlugin
  /\ globalPlugin = "unresolvable"
  /\ pluginCalls = << >>
  /\ strategyApplicationList = << >>
  /\ externalMapping = NoExternalMapping
  /\ selected = NotSelected

Next ==
  \/ Execute
  \/ ExecuteWill
  \/ Done
  \/ Reject
  \/ Promise
  \/ HookReturns
  \/ HookThrows
  \/ DoPromiseFulfils
  \/ DoPromiseRejects
  \/ DefaultPromiseFulfils
  \/ DefaultPromiseRejects
  \/ DroppedPromiseSettles
  \/ CatchReaction
  \/ FinallyContinuation

Spec == Init /\ [][Next]_vars

(***************************************************************************)
(* The specification for progress: the reasons are one of each outcome     *)
(* (canceled, failed); every hook returns or throws, every pending         *)
(* computation settles and every scheduled reaction runs.                  *)
(***************************************************************************)
FairReasons == { Str("Not allowed"), Err("Error", "E1") }

FairExecute == ExecuteBy(MaxOps)

FairExecuteWill == ExecuteWillBy(MaxOps)

FairDone == DoneBy(MaxOps)

FairReject == RejectBy(MaxOps, FairReasons)

FairPromise == PromiseBy(MaxOps)

FairHookThrows == HookThrowsOneOf(FairReasons)

FairDoPromiseRejects == DoPromiseRejectsWith(FairReasons)

FairDefaultPromiseRejects == DefaultPromiseRejectsWith(FairReasons)

Scheduled ==
  \/ HookReturns
  \/ FairHookThrows
  \/ DoPromiseFulfils
  \/ FairDoPromiseRejects
  \/ DefaultPromiseFulfils
  \/ FairDefaultPromiseRejects
  \/ DroppedPromiseSettles
  \/ CatchReaction
  \/ FinallyContinuation

FairNext ==
  \/ FairExecute
  \/ FairExecuteWill
  \/ FairDone
  \/ FairReject
  \/ FairPromise
  \/ Scheduled

FairSpec == Init /\ [][FairNext]_vars /\ WF_vars(Scheduled)

(***************************************************************************)
(* The triple-click special event (jquery.tripleclick.js).                 *)
(***************************************************************************)
\* Mutant: the start time is kept when the triple click is dispatched.
tripleHandler_keepsStart(data, event) ==
  LET start1 == IF data.clicks = 0 THEN event.timeStamp ELSE data.start
      tooLong == start1 # 0 /\ event.timeStamp > start1 + 1000
      clicks2 == IF tooLong THEN 0 ELSE data.clicks
      start2 == IF tooLong THEN event.timeStamp ELSE start1
      clicks3 == clicks2 + 1
  IN IF clicks3 = 3
       THEN [clicks |-> 0, start |-> start2, type |-> "tripleclick"]
       ELSE [clicks |-> clicks3, start |-> start2, type |-> event.type]

\* Mutant: the handler never tests the time limit.
tripleHandler_noLimit(data, event) ==
  IF data.clicks + 1 = 3
    THEN [clicks |-> 0, start |-> 0, type |-> "tripleclick"]
    ELSE [clicks |-> data.clicks + 1,
          start |-> IF data.clicks = 0 THEN event.timeStamp ELSE data.start,
          type |-> event.type]

\* tripleHandler(event) on an element whose data are `data`: the data it
\* stores and the type the event is left with ("tripleclick" when it has
\* been handed to jQuery.event.handle).
tripleHandler(data, event) ==
  LET start1 == IF data.clicks = 0 THEN event.timeStamp ELSE data.start
      tooLong == start1 # 0 /\ event.timeStamp > start1 + 1000
      clicks2 == IF tooLong THEN 0 ELSE data.clicks
      start2 == IF tooLong THEN event.timeStamp ELSE start1
      clicks3 == clicks2 + 1
  IN IF clicks3 = 3
       THEN [clicks |-> 0, start |-> 0, type |-> "tripleclick"]
       ELSE [clicks |-> clicks3, start |-> start2, type |-> event.type]

\* The time stamps of the events, in ms: positive (jQuery.Event replaces a
\* missing time stamp by the current time) and on both sides of the limit.
Stamps == {1, 400, 1000, 1001, 1002, 1401, 2001, 2002, 3003}

\* jQuery calls the bound handler with an event of this type; time does not
\* run backwards.
Handle(type) ==
  /\ Len(clickLog) < MaxClicks
  /\ \E t \in Stamps :
       /\ clickLog # << >> => t >= clickLog[Len(clickLog)].timeStamp
       /\ LET r == tripleHandler([clicks |-> triclick_clicks, start |-> triclick_start],
                                 [timeStamp |-> t, type |-> type])
          IN /\ triclick_clicks' = r.clicks
             /\ triclick_start' = r.start
             /\ clickLog' = Append(clickLog, [timeStamp |-> t, type |-> r.type])
  /\ UNCHANGED << executionVars, validatorVars, pluginVars, roleVars >>

Click == Handle("click")

Touch == Handle("touchstart")

ClickInit == Init /\ isSync /\ validation.isNull

ClickNext ==
  \/ Click
  \/ Touch

ClickSpec == ClickInit /\ [][ClickNext]_vars

(***************************************************************************)
(* The specification of the parameter validator.                           *)
(***************************************************************************)
ValidatorInit == Init /\ isSync /\ validation.isNull

ValidatorNext ==
  \/ LoadParamDefn
  \/ ValidateSingleParameter
  \/ CheckParametersErrors

ValidatorSpec == ValidatorInit /\ [][ValidatorNext]_vars

(***************************************************************************)
(* The specification of the plugin.                                        *)
(***************************************************************************)
PluginInit == Init /\ isSync /\ validation.isNull

PluginNext ==
  \/ CreatePlugin
  \/ PageDefinesPlugin
  \/ OnRegister
  \/ OnUnregister

PluginSpec == PluginInit /\ [][PluginNext]_vars

(***************************************************************************)
(* The specification of the external visual role property.                 *)
(***************************************************************************)
RoleInit == Init /\ isSync /\ validation.isNull

RoleNext ==
  \/ BindRole
  \/ SelectAdaptationStrategyOn

RoleSpec == RoleInit /\ [][RoleNext]_vars

TypeOK ==
  /\ state \in 0..255
  /\ isInside \in BOOLEAN
  /\ Len(stack) <= 2
  /\ ops \in 0..MaxOps

(***************************************************************************)
(* Properties.                                                             *)
(***************************************************************************)
W == World

\* The outcome bits of the state.
Outcome == BitAnd(state, settledStates)

Outcomes == Cardinality({b \in {States.did, States.canceled, States.failed} : BitAnd(state, b) # 0})

\* The hooks of the four phases, in the order they were started.
PhaseHooks == <<"_onPhaseInit", "_onPhaseWill", "_onPhaseDo", "_onPhaseFinally">>

IsPhaseHook(h) == \E i \in 1..4 : PhaseHooks[i] = h

PhaseOf(h) == CHOOSE i \in 1..4 : PhaseHooks[i] = h

PhaseLog == SelectSeq(hookLog, IsPhaseHook)

Started(h) == \E i \in 1..Len(hookLog) : hookLog[i] = h

Runs(h) == Cardinality({i \in 1..Len(hookLog) : hookLog[i] = h})

\* C1: at most one of isDone, isCanceled, isFailed is true in every state;
\* exactly one of them is true whenever isFinished is true; and once
\* isFinished is true it stays true whatever happens next.
C1_OneOutcomeOnceFinished ==
  /\ [](Outcomes <= 1 /\ (isFinished(W) => Outcomes = 1))
  /\ [][isFinished(W) => isFinished(W)']_vars

\* A finished execution on which a later call was made and refused.
C1_Witness == isFinished(W) /\ last.status = "threw" /\ last.from >= States.finished

\* C2: once the execution is settled, the outcome kind, the result and the
\* error are never changed by any later step.
C2_SettledOutcomeIsFinal ==
  [][isSettled(W) => (Outcome' = Outcome /\ result' = result /\ error' = error)]_vars

\* A done execution with a result whose pending computation then rejected:
\* the reason was dropped.
C2_Witness == isDone(W) /\ result = Str("r1") /\ ignored /\ chain.via = "catch"

\* C3: each of _onPhaseInit, _onPhaseWill, _onPhaseDo, _onPhaseFinally is
\* started at most once, and those started are started in phase order.
C3_HooksOnceInOrder ==
  \A i, j \in 1..Len(PhaseLog) : i < j => PhaseOf(PhaseLog[i]) < PhaseOf(PhaseLog[j])

\* All four hooks ran and a call made from inside a hook was refused.
C3_Witness ==
  /\ Len(PhaseLog) = 4
  /\ last.status = "threw"
  /\ last.origin # "external"
  /\ last.op \in {"execute", "executeWill"}

\* C4: for a synchronous action, an execute() made in the unstarted or the
\* will state has, when it returns, run the finally hook and finished the
\* execution.
C4_SyncExecuteFinishes ==
  ( /\ isSync
    /\ last.op = "execute"
    /\ last.status = "returned"
    /\ last.from \in {States.unstarted, States.will} )
  => (isFinished(W) /\ Started("_onPhaseFinally"))

\* execute() after executeWill() on a synchronous action, with a hook that threw.
C4_Witness ==
  /\ isSync
  /\ last.op = "execute"
  /\ last.status = "returned"
  /\ last.from = States.will
  /\ isRejected(W)
  /\ isFinished(W)

\* C5: for an asynchronous action, once execute() has been accepted the
\* execution eventually is finished with the finally hook run exactly once
\* (hooks return, pending computations settle and reactions run).
C5_AsyncExecuteFinishes ==
  (~isSync /\ executed) ~> (isFinished(W) /\ Runs("_onPhaseFinally") = 1)

\* An asynchronous execution finished after its pending computation rejected.
C5_Witness ==
  /\ ~isSync
  /\ executed
  /\ isFinished(W)
  /\ isFailed(W)
  /\ chain.via = "catch"
  /\ chain.stage = "done"

\* C6: a requested promise is pending as long as the execution is not
\* finished; once finished it is fulfilled with the result if done and
\* rejected with the error otherwise; it is settled at most once.
C6_PromiseFollowsOutcome ==
  promiseControl.id # 0 =>
    /\ ~isFinished(W) => promiseControl.status = "pending"
    /\ isFinished(W) /\ isDone(W) =>
         promiseControl.status = "fulfilled" /\ promiseControl.value = result
    /\ isFinished(W) /\ ~isDone(W) =>
         promiseControl.status = "rejected" /\ promiseControl.value = error
    /\ promiseControl.settles <= 1

\* A promise requested in the do state, fulfilled with a result on finish.
C6_Witness ==
  /\ promiseControl.at = States.do
  /\ promiseControl.status = "fulfilled"
  /\ promiseControl.value = Str("r1")

\* C7: the promise control is created at most once and every read of the
\* promise yields that one instance.
C7_OnePromise ==
  /\ promiseSeq <= 1
  /\ \A i \in 1..Len(promiseReads) : promiseReads[i].id = promiseControl.id

\* The promise was read before the execution started and after it finished.
C7_Witness ==
  /\ \E i \in 1..Len(promiseReads) : promiseReads[i].at = States.unstarted
  /\ \E i \in 1..Len(promiseReads) : promiseReads[i].at >= States.finished

C9_RejectReachesFinally ==
  (rejectedFrom \in {States.init, States.will, States.do})
    ~> (isFinished(W) /\ Started("_onPhaseFinally"))

\* C10: when validate() yields errors during the init-to-will transition,
\* the execution is rejected with the first error and reaches the finally
\* phase: the finally hook runs and the execution is finished.
C10_InvalidReachesFinally ==
  invalid ~> ( /\ isRejected(W)
               /\ Len(validation.errors) > 0
               /\ error = validation.errors[1]
               /\ isFinished(W)
               /\ Started("_onPhaseFinally") )

\* The public calls, as steps (every call counts as one operation).
DoneCall(r) == CanCall(MaxOps) /\ ops' = ops + 1 /\ Invoke(done(World, r))

RejectCall(reason) == CanCall(MaxOps) /\ ops' = ops + 1 /\ Invoke(reject(World, reason))

\* C11: when validate() yields errors the execution is rejected with the
\* first of them, canceled if that error is a UserError and not a
\* RuntimeError and failed otherwise; the state do is not entered, none of
\* _onPhaseWill, _onPhaseDo, _doDefault runs and the action is not locked.
C11_InvalidNeverDoes ==
  invalid =>
    /\ Len(validation.errors) > 0
    /\ isRejected(W)
    /\ error = validation.errors[1]
    /\ isCanceled(W) <=> (instanceof(error, "UserError") /\ ~instanceof(error, "RuntimeError"))
    /\ BitAnd(state, States.do) = 0
    /\ ~Started("_onPhaseWill")
    /\ ~Started("_onPhaseDo")
    /\ ~Started("_doDefault")
    /\ ~locked

\* An action with two validation errors, the first a UserError: the execution
\* finished canceled with that first error.
C11_Witness ==
  /\ invalid
  /\ Len(validation.errors) = 2
  /\ isCanceled(W)
  /\ isFinished(W)
  /\ error = Err("UserError", "V2")

\* C12: done(r) called in a state other than do throws a usage error and
\* leaves state, result, error and the promise unchanged; called in the do
\* state it returns with result r and state did.
C12_DoneOnlyInDo ==
  [][\A r \in Results : DoneCall(r) =>
       /\ last'.op = "done"
       /\ IF state = States.do
            THEN /\ last'.status = "returned"
                 /\ state' = States.did
                 /\ result' = r
                 /\ error' = error
            ELSE /\ last'.status = "threw"
                 /\ state' = state
                 /\ result' = result
                 /\ error' = error
                 /\ promiseControl' = promiseControl]_vars

\* done() refused on a finished execution whose promise had been requested.
C12_Witness ==
  /\ last.op = "done"
  /\ last.status = "threw"
  /\ last.from > States.finished
  /\ promiseControl.id # 0

\* C13: reject(reason) on a settled execution, finished or not, throws a
\* usage error at once and leaves state, result and error unchanged.
C13_RejectRefusedWhenSettled ==
  [][(isSettled(W) /\ \E reason \in Reasons : RejectCall(reason)) =>
       /\ last'.op = "reject"
       /\ last'.status = "threw"
       /\ state' = state
       /\ result' = result
       /\ error' = error]_vars

\* reject() refused inside the do hook, after done("r1") had settled the execution.
C13_Witness ==
  /\ last.op = "reject"
  /\ last.status = "threw"
  /\ last.from = States.did
  /\ last.origin = "_onPhaseDo"
  /\ result = Str("r1")

\* C14: execute() or executeWill() called from inside a hook of the same
\* execution throws a usage error at the call site; no phase is started or
\* repeated: the state, the hooks run and the engine's position are unchanged.
C14_NoReentry ==
  [][(InHook(W) /\ (Execute \/ ExecuteWill)) =>
       /\ last'.op \in {"execute", "executeWill"}
       /\ last'.status = "threw"
       /\ last'.origin = Top(W).hook
       /\ state' = state
       /\ hookLog' = hookLog
       /\ stack' = stack
       /\ isInside' = isInside]_vars

\* executeWill() refused inside _doDefault run by a promise reaction, where
\* the reentrancy guard is not set.
C14_Witness ==
  /\ last.op = "executeWill"
  /\ last.status = "threw"
  /\ last.origin = "_doDefault"
  /\ ~last.inside
  /\ InHook(W)

\* C15: execute() and executeWill() called when the state is past will throw
\* a usage error and change nothing: state, result, error, the reentrancy
\* guard and the hooks run are unchanged.
C15_RefusedPastWill ==
  [][(state > States.will /\ (Execute \/ ExecuteWill)) =>
       /\ last'.op \in {"execute", "executeWill"}
       /\ last'.status = "threw"
       /\ state' = state
       /\ result' = result
       /\ error' = error
       /\ isInside' = isInside
       /\ hookLog' = hookLog]_vars

\* execute() refused from outside while an asynchronous execution waits in
\* the do state for its pending computation.
C15_Witness ==
  /\ last.op = "execute"
  /\ last.status = "threw"
  /\ last.origin = "external"
  /\ last.from = States.do
  /\ chain.stage = "awaitDo"

\* C16: reject(reason) accepted in any unsettled state (unstarted, init, will
\* or do): undefined or "" gives canceled with a UserError "Canceled"; a
\* non-empty string gives canceled with a UserError carrying it; a UserError
\* that is not a RuntimeError gives canceled with that same error; any other
\* Error gives failed with that same error.
C16_ReasonDecidesOutcome ==
  [][~isSettled(W) =>
       \A reason \in Reasons : RejectCall(reason) =>
         /\ (reason = Undefined \/ reason = Str("")) =>
              Outcome' = States.canceled /\ error' = Err("UserError", "Canceled")
         /\ (reason.t = "string" /\ reason.msg # "") =>
              Outcome' = States.canceled /\ error' = Err("UserError", reason.msg)
         /\ (instanceof(reason, "UserError") /\ ~instanceof(reason, "RuntimeError")) =>
              Outcome' = States.canceled /\ error' = reason
         /\ (instanceof(reason, "Error")
               /\ (~instanceof(reason, "UserError") \/ instanceof(reason, "RuntimeError"))) =>
              Outcome' = States.failed /\ error' = reason]_vars

\* reject(new RuntimeError) accepted in the do state: failed with that error.
C16_Witness ==
  /\ rejectedFrom = States.do
  /\ last.op = "reject"
  /\ last.status = "returned"
  /\ Outcome = States.failed
  /\ error = Err("RuntimeError", "R1")

\* C17: reject(reason) accepted with a reason that is neither an Error nor a
\* string (0, 7, false, null, a plain object) gives failed with an
\* ArgumentInvalidTypeError as the error.
C17_OtherReasonsFail ==
  [][~isSettled(W) =>
       \A reason \in Reasons :
         (reason.t \notin {"string", "undefined"} /\ ~instanceof(reason, "Error")
            /\ RejectCall(reason)) =>
           Outcome' = States.failed /\ error' = Err("ArgumentInvalidTypeError", "reason")]_vars

\* C18: a synchronous valid action whose hooks neither call done() or
\* reject() nor throw: once execute() has returned, the state is
\* did|finished, the result undefined and the error null, also after a
\* promise returned by the do hook has fulfilled or rejected.
C18_SyncDefaultOutcome ==
  ( /\ isSync
    /\ validation.isNull \/ Len(validation.errors) = 0
    /\ executed
    /\ stack = << >>
    /\ ~hookActs )
  => /\ state = BitOr(States.did, States.finished)
     /\ result = Undefined
     /\ error = Null

\* The do hook returned a promise, execute() returned, the promise then rejected.
C18_Witness ==
  /\ isSync
  /\ executed
  /\ stack = << >>
  /\ ~hookActs
  /\ dropped = "rejected"
  /\ state = BitOr(States.did, States.finished)

C20_EarlyRejectSkipsToFinally ==
  /\ [][(InHook(W) /\ Top(W).hook \in {"_onPhaseInit", "_onPhaseWill"}
           /\ Top(W).driver \in {SyncDriver, AsyncDriver} /\ ~isSettled(W)) =>
          \A reason \in Reasons : RejectCall(reason) =>
            /\ isRejected(W)'
            /\ state' = __reject(W, reason).state
            /\ error' = __reject(W, reason).error
            /\ reason = Str("Not allowed") =>
                 state' = States.canceled /\ error' = Err("UserError", "Not allowed")]_vars
  /\ [][(executed /\ rejectedFrom \in {States.init, States.will}) =>
          Outcome' = Outcome /\ error' = error]_vars
  /\ []((executed /\ rejectedFrom \in {States.init, States.will}) =>
          /\ ~Started("_onPhaseDo")
          /\ ~Started("_doDefault")
          /\ rejectedFrom = States.init => ~Started("_onPhaseWill")
          /\ (stack = << >> /\ (isSync \/ chain.stage = "done")) =>
               isFinished(W) /\ Runs("_onPhaseFinally") = 1)

\* reject("Not allowed") inside the will hook of execute(): finished canceled,
\* the do hook skipped.
C20_Witness ==
  /\ executed
  /\ rejectedFrom = States.will
  /\ hookLog = <<"_onPhaseInit", "_onPhaseWill", "_onPhaseFinally">>
  /\ state = BitOr(States.canceled, States.finished)
  /\ error = Err("UserError", "Not allowed")

\* A hook throwing ex, as a step (it is no call of the public interface).
ThrowStep(ex) == InHook(World) /\ ops' = ops /\ Turn(Thrown(World, ex))

\* The action is valid: validate() returns null or no errors.
Valid == validation.isNull \/ Len(validation.errors) = 0

\* C21: an error thrown by the finally hook changes nothing of the outcome:
\* the step ends the finally phase with the state the settled state of
\* before plus the finished bit, result and error unchanged, a requested
\* promise settled with them, and the call that ran the phase (execute() or
\* reject()) returning normally.
C21_FinallyErrorsIgnored ==
  [][(InHook(W) /\ Top(W).hook = "_onPhaseFinally"
        /\ \E ex \in Reasons : ThrowStep(ex)) =>
       /\ isSettled(W)
       /\ state' = BitOr(state, States.finished)
       /\ result' = result
       /\ error' = error
       /\ promiseControl.id # 0 =>
            /\ promiseControl'.status = IF isDone(W) THEN "fulfilled" ELSE "rejected"
            /\ promiseControl'.value = IF isDone(W) THEN result ELSE error
       /\ stack' = Tail(stack)
       /\ Top(W).call.op # "none" =>
            last' = [Top(W).call EXCEPT !.status = "returned"]]_vars

\* reject() on an unstarted execution whose promise was requested: the
\* finally hook threw (it made no call), reject() returned, the promise is rejected.
C21_Witness ==
  /\ hookActs
  /\ ops = 2
  /\ hookLog = <<"_onPhaseFinally">>
  /\ last.op = "reject"
  /\ last.status = "returned"
  /\ isFinished(W)
  /\ promiseControl.status = "rejected"

\* C22: for a synchronous action under execute(), an error E thrown by the
\* init, will or do hook or by _doDefault while the execution is unsettled
\* rejects it as E is classified (a plain Error fails with that Error) and the
\* next hook run is the finally hook; the outcome does not change in the
\* finally hook; and when the driver leaves, execute() returns normally with
\* the execution finished.
C22_SyncThrowRejects ==
  /\ [][(InHook(W) /\ Top(W).driver = SyncDriver
           /\ Top(W).hook \in {"_onPhaseInit", "_onPhaseWill", "_onPhaseDo", "_doDefault"}
           /\ ~isSettled(W)) =>
          \A ex \in Reasons : ThrowStep(ex) =>
            /\ state' = __reject(W, ex).state
            /\ error' = __reject(W, ex).error
            /\ isRejected(W)'
            /\ ex = Err("Error", "E1") =>
                 state' = States.failed /\ error' = Err("Error", "E1")
            /\ hookLog' = Append(hookLog, "_onPhaseFinally")]_vars
  /\ [][(InHook(W) /\ Top(W).driver = SyncDriver /\ Top(W).hook = "_onPhaseFinally") =>
          Outcome' = Outcome /\ error' = error]_vars
  /\ [][(stack # << >> /\ stack' = << >> /\ Head(stack).driver = SyncDriver) =>
          /\ last'.op = "execute"
          /\ last'.status = "returned"
          /\ isFinished(W)']_vars

\* The will hook of a synchronous execute() threw a plain Error (no hook made
\* a call): execute() returned, failed and finished, the do hook skipped.
C22_Witness ==
  /\ isSync
  /\ hookActs
  /\ ops = 1
  /\ last.op = "execute"
  /\ last.status = "returned"
  /\ hookLog = <<"_onPhaseInit", "_onPhaseWill", "_onPhaseFinally">>
  /\ state = BitOr(States.failed, States.finished)
  /\ error = Err("Error", "E1")

\* C23: executeWill() on an unstarted execution of a valid action, nothing
\* rejecting it, returns in state will (not settled, not finished) with the
\* init and will hooks run, each once; a second executeWill() in state will returns and runs no hook; an
\* execute() in state will goes straight to the do hook, and once it has
\* returned the execution eventually is finished with the four phase hooks
\* run once each, in order.
C23_WillThenExecute ==
  /\ [][(stack # << >> /\ stack' = << >> /\ Head(stack).call.op = "executeWill"
           /\ Head(stack).call.from = States.unstarted /\ Valid /\ ~isRejected(W)') =>
          /\ last'.op = "executeWill"
          /\ last'.status = "returned"
          /\ state' = States.will
          /\ hookLog' = <<"_onPhaseInit", "_onPhaseWill">>]_vars
  /\ [][(state = States.will /\ stack = << >> /\ ExecuteWill) =>
          /\ last'.op = "executeWill"
          /\ last'.status = "returned"
          /\ hookLog' = hookLog
          /\ state' = state]_vars
  /\ [][(state = States.will /\ stack = << >> /\ Execute) =>
          /\ hookLog' = Append(hookLog, "_onPhaseDo")
          /\ state' = States.do]_vars
  /\ (last.op = "execute" /\ last.status = "returned" /\ last.from = States.will)
       ~> ( /\ isFinished(W)
            /\ PhaseLog = <<"_onPhaseInit", "_onPhaseWill", "_onPhaseDo", "_onPhaseFinally">> )

\* executeWill(), executeWill() again, then execute() on an asynchronous
\* action: finished, done, each phase hook run once.
C23_Witness ==
  /\ ~isSync
  /\ ops = 3
  /\ last.op = "execute"
  /\ last.status = "returned"
  /\ last.from = States.will
  /\ state = BitOr(States.did, States.finished)
  /\ PhaseLog = <<"_onPhaseInit", "_onPhaseWill", "_onPhaseDo", "_onPhaseFinally">>

\* C24: for an asynchronous action, when execute() returns the execution is
\* not finished and the finally hook has not run, whatever happened in the
\* hooks (rejection, failed validation, errors); the finally continuation is
\* scheduled or waits for a pending computation; an execution that execute()
\* was accepted on is finished only by that continuation.
C24_AsyncFinishesLater ==
  /\ [][(stack # << >> /\ stack' = << >> /\ Head(stack).driver = AsyncDriver) =>
          /\ last'.op = "execute"
          /\ last'.status = "returned"
          /\ ~isFinished(W)'
          /\ ~Started("_onPhaseFinally")'
          /\ chain'.stage \in {"awaitDo", "awaitDefault", "finally"}]_vars
  /\ []((~isSync /\ executed /\ (isFinished(W) \/ Started("_onPhaseFinally"))) =>
          /\ chain.stage = "done"
          /\ stack # << >> => Head(stack).driver = FinallyReaction)

\* execute() returned on an asynchronous invalid action: failed by the
\* validation, not finished, the continuation scheduled.
C24_Witness ==
  /\ ~isSync
  /\ invalid
  /\ last.op = "execute"
  /\ last.status = "returned"
  /\ isFailed(W)
  /\ ~isFinished(W)
  /\ chain.stage = "finally"

\* What the events of history h amount to: n events counted since the last
\* reset, the first of them at `first`, and whether the last event of h is
\* the third counted one, no later than 1000 ms after the first.
RECURSIVE Counted(_)
Counted(h) ==
  IF h = << >> THEN [n |-> 0, first |-> 0, third |-> FALSE]
  ELSE LET p == Counted(SubSeq(h, 1, Len(h) - 1))
           t == h[Len(h)].timeStamp
       IN IF p.n > 0 /\ t > p.first + 1000
            THEN [n |-> 1, first |-> t, third |-> FALSE]
          ELSE IF p.n = 2
            THEN [n |-> 0, first |-> 0, third |-> TRUE]
          ELSE [n |-> p.n + 1, first |-> IF p.n = 0 THEN t ELSE p.first,
                third |-> FALSE]

\* C25: the handler dispatches "tripleclick" on an event exactly when the
\* event is the third counted since the last reset and comes at most 1000 ms
\* after the first counted one; an event that comes more than 1000 ms after
\* the first counted one is not dispatched and becomes the first counted
\* event of a new sequence, which starts at its time stamp.
C25_TripleWithinLimit ==
  /\ [](\A i \in 1..Len(clickLog) :
          (clickLog[i].type = "tripleclick") <=> Counted(SubSeq(clickLog, 1, i)).third)
  /\ [](triclick_clicks = Counted(clickLog).n)
  /\ [](triclick_clicks > 0 => triclick_start = Counted(clickLog).first)
  /\ [][(/\ clickLog' # clickLog
         /\ triclick_clicks > 0
         /\ clickLog'[Len(clickLog')].timeStamp > triclick_start + 1000) =>
          /\ clickLog'[Len(clickLog')].type # "tripleclick"
          /\ triclick_clicks' = 1
          /\ triclick_start' = clickLog'[Len(clickLog')].timeStamp]_vars

\* The second event came too late and started a new sequence; the fourth,
\* exactly 1000 ms after it, was dispatched as a triple click.
C25_Witness ==
  /\ Len(clickLog) = 4
  /\ clickLog[2].timeStamp > clickLog[1].timeStamp + 1000
  /\ clickLog[4].timeStamp = clickLog[2].timeStamp + 1000
  /\ clickLog[4].type = "tripleclick"
  /\ triclick_clicks = 0

\* C26: whenever _onPhaseDo has started, validate() had returned no errors,
\* the action is locked and _onPhaseWill has run; the action is locked in the
\* very step that then calls _onPhaseWill, on a valid action; and in the
\* states unstarted and init it is not locked.
C26_DoOnlyWhenValidAndLocked ==
  /\ [](Started("_onPhaseDo") => (Valid /\ ~invalid /\ locked /\ Started("_onPhaseWill")))
  /\ [](Started("_onPhaseWill") => (Valid /\ locked))
  /\ [](state \in {States.unstarted, States.init} => ~locked)
  /\ [][(~locked /\ locked') =>
          /\ Valid
          /\ state' = States.will
          /\ hookLog' = Append(hookLog, "_onPhaseWill")]_vars

\* The do hook started on an action whose validate() returned an empty array.
C26_Witness ==
  /\ Started("_onPhaseDo")
  /\ locked
  /\ ~validation.isNull
  /\ InHook(W)
  /\ Top(W).hook = "_onPhaseDo"

\* A step in which _doDefault is called.
StartsDefault == hookLog' = Append(hookLog, "_doDefault")

\* C27: _doDefault is called at most once; it is called only in the state do
\* on an unsettled execution, right after _onPhaseDo, either as _onPhaseDo
\* returns or, for an asynchronous action waiting for the computation
\* _onPhaseDo returned, in the reaction to that computation's fulfilment; as
\* long as the computation is pending, and when it has rejected, _doDefault
\* has not been called.
C27_DefaultOnceWhenUnsettled ==
  /\ [](Runs("_doDefault") <= 1)
  /\ []((chain.stage = "awaitDo" \/ (chain.stage = "catch" /\ chain.via = "_onPhaseDo")) =>
          ~Started("_doDefault"))
  /\ [][StartsDefault =>
          /\ ~isSettled(W)
          /\ state = States.do
          /\ state' = States.do
          /\ hookLog # << >>
          /\ hookLog[Len(hookLog)] = "_onPhaseDo"
          /\ \/ InHook(W) /\ Top(W).hook = "_onPhaseDo"
             \/ /\ stack = << >>
                /\ chain.stage = "awaitDo"
                /\ chain'.stage = "reacting"
                /\ chain'.via = "_onPhaseDo"]_vars

\* _doDefault running in the reaction to the fulfilment of the computation
\* the do hook returned.
C27_Witness ==
  /\ ~isSync
  /\ InHook(W)
  /\ Top(W).hook = "_doDefault"
  /\ Top(W).driver = DefaultReaction
  /\ chain.via = "_onPhaseDo"
  /\ Runs("_doDefault") = 1

\* An asynchronous execution waits for the computation its do hook returned.
Awaiting == ~isSync /\ stack = << >> /\ chain.stage = "awaitDo"

\* C28: while an asynchronous execution waits for the pending computation of
\* its do hook, it is not finished, the finally hook has not run and a
\* requested promise is pending; a done() or reject() made from outside then
\* settles the execution at once and returns, without finishing it, running
\* a hook or touching the wait; and the finally hook of an executed
\* asynchronous action starts only in the continuation scheduled after the
\* computation has settled.
C28_NoPreemption ==
  /\ [](chain.stage = "awaitDo" =>
          /\ ~isFinished(W)
          /\ ~Started("_onPhaseFinally")
          /\ promiseControl.id # 0 => promiseControl.status = "pending")
  /\ [][(Awaiting /\ ~isSettled(W) /\ (Done \/ Reject)) =>
          /\ isSettled(W)'
          /\ ~isFinished(W)'
          /\ last'.status = "returned"
          /\ hookLog' = hookLog
          /\ chain' = chain
          /\ stack' = << >>
          /\ promiseControl' = promiseControl]_vars
  /\ [][(~isSync /\ executed /\ ~Started("_onPhaseFinally") /\ Started("_onPhaseFinally")') =>
          /\ stack = << >>
          /\ chain.stage = "finally"]_vars

\* reject() from outside canceled a waiting execution whose promise had been
\* requested: settled, not finished, the promise pending.
C28_Witness ==
  /\ Awaiting
  /\ isCanceled(W)
  /\ ~isFinished(W)
  /\ last.op = "reject"
  /\ last.origin = "external"
  /\ last.status = "returned"
  /\ promiseControl.id # 0
  /\ promiseControl.status = "pending"

\* An asynchronous execution waits for the computation of its do hook, or
\* that computation's rejection waits to be handled.
Racing ==
  /\ ~isSync
  /\ stack = << >>
  /\ chain.stage = "awaitDo" \/ (chain.stage = "catch" /\ chain.via = "_onPhaseDo")

C30_ResultAndErrorFollowOutcome ==
  /\ []((error # Null) <=> isRejected(W))
  /\ [](~isDone(W) => result = Undefined)
  /\ [][result' # result =>
          /\ state = States.do
          /\ isDone(W)'
          /\ result' \in Results]_vars
  /\ [][error' # error =>
          /\ ~isSettled(W)
          /\ error = Null
          /\ isRejected(W)']_vars

\* Rejected with a reason that is neither a string nor an Error: the error is
\* the ArgumentInvalidTypeError, the result undefined.
C30_Witness ==
  /\ state = BitOr(States.failed, States.finished)
  /\ error = Err("ArgumentInvalidTypeError", "reason")
  /\ result = Undefined
  /\ rejectedFrom = States.do

\* The stage of a state value: unstarted, init, will, do, settled, finished.
Stage(s) ==
  IF BitAnd(s, States.finished) # 0 THEN 5
  ELSE IF BitAnd(s, settledStates) # 0 THEN 4
  ELSE IF s = States.do THEN 3
  ELSE IF s = States.will THEN 2
  ELSE IF s = States.init THEN 1
  ELSE 0

\* A step that is one public call refused with a usage error.
RefusedCall ==
  /\ ops' = ops + 1
  /\ last'.status = "threw"
  /\ stack' = stack

\* C31: the state always is one of unstarted, init, will, do, a settled
\* outcome, or a settled outcome with the finished bit; no step takes it to
\* an earlier stage; the stages before settlement are entered one by one,
\* a later one being skipped only by a step that rejects; and a call
\* refused with a usage error leaves the state as it was.
C31_StateNeverMovesBack ==
  /\ [](\/ state \in {States.unstarted, States.init, States.will, States.do}
        \/ state \in {States.did, States.canceled, States.failed}
        \/ /\ isFinished(W)
           /\ BitAnd(state, settledStates) \in {States.did, States.canceled, States.failed}
           /\ state = BitOr(BitAnd(state, settledStates), States.finished))
  /\ [][Stage(state') >= Stage(state)]_vars
  /\ [][(Stage(state') > Stage(state) + 1 /\ Stage(state) < 3) => isRejected(W)']_vars
  /\ [][RefusedCall => state' = state]_vars

\* Rejected in the init hook, so the will and do stages were skipped, then
\* finished; a later call was refused.
C31_Witness ==
  /\ rejectedFrom = States.init
  /\ hookLog = <<"_onPhaseInit", "_onPhaseFinally">>
  /\ isFinished(W)
  /\ last.status = "threw"
  /\ last.from >= States.finished

\* A call made through __callInside is on the stack.
Inside == \E i \in 1..Len(stack) : stack[i].driver \in InsideDrivers

\* C32: __isInside is true exactly while an execute(), an executeWill() or
\* the asynchronous finally continuation is on the call stack; when an
\* execute() or executeWill() returns it is false; and a call refused with a
\* usage error while the guard is set leaves it set.
C32_GuardFollowsTheDriver ==
  /\ [](isInside <=> Inside)
  /\ [][(/\ stack # << >>
         /\ stack' = << >>
         /\ Head(stack).call.op \in {"execute", "executeWill"}) =>
          /\ ~isInside'
          /\ last'.op = Head(stack).call.op]_vars
  /\ [][(RefusedCall /\ isInside) => isInside']_vars

\* In the init hook, under execute(), a reentrant execute() has just been
\* refused: the guard is still set.
C32_Witness ==
  /\ InHook(W)
  /\ Top(W).hook = "_onPhaseInit"
  /\ Top(W).call.op = "execute"
  /\ last.op = "execute"
  /\ last.status = "threw"
  /\ last.inside
  /\ isInside

\* execute() has been accepted for an asynchronous action and has returned.
AsyncExecuteReturned ==
  /\ ~isSync
  /\ executed
  /\ \A i \in 1..Len(stack) : stack[i].driver # AsyncDriver

\* C33: once execute() has returned for an asynchronous action, every
\* execute() and executeWill(), made from outside or from a hook of a
\* reaction, before or after the continuations have run, is refused with a
\* usage error and changes nothing; at most one driver is on the stack; and
\* when the finally continuation is due the guard is clear, so the
\* continuation runs the finally hook.
C33_OneDriverAtATime ==
  /\ [][(AsyncExecuteReturned /\ (Execute \/ ExecuteWill)) =>
          /\ last'.status = "threw"
          /\ last'.op \in {"execute", "executeWill"}
          /\ state' = state
          /\ isInside' = isInside
          /\ stack' = stack
          /\ chain' = chain
          /\ hookLog' = hookLog]_vars
  /\ [](Cardinality({i \in 1..Len(stack) : stack[i].driver \in InsideDrivers}) <= 1)
  /\ []((stack = << >> /\ chain.stage = "finally") => ~isInside)
  /\ [][FinallyContinuation =>
          /\ isInside'
          /\ hookLog' = Append(hookLog, "_onPhaseFinally")]_vars

\* While the computation of the do hook is pending, an execute() made from
\* outside was refused.
C33_Witness ==
  /\ AsyncExecuteReturned
  /\ stack = << >>
  /\ chain.stage = "awaitDo"
  /\ last.op = "execute"
  /\ last.status = "threw"
  /\ last.from = States.do
  /\ ~isInside

\* A step in which _onPhaseFinally is called.
StartsFinally == hookLog' = Append(hookLog, "_onPhaseFinally")

\* C34: inside the finally hook the execution is settled and not finished;
\* when a hook returns, or the finally continuation runs, on an unsettled
\* execution and the finally hook is called, then, unless the step found
\* the action invalid after the init hook and rejected it, the execution
\* was in the state do and is then did with result undefined and no error;
\* and a settled execution enters the finally hook with its outcome as it
\* was.
C34_AutoCompletion ==
  /\ []((InHook(W) /\ Top(W).hook = "_onPhaseFinally") =>
          (isSettled(W) /\ ~isFinished(W)))
  /\ [][(StartsFinally /\ ~isSettled(W) /\ (HookReturns \/ FinallyContinuation)) =>
          IF invalid'
            THEN state = States.init /\ isRejected(W)'
            ELSE /\ state = States.do
                 /\ state' = States.did
                 /\ result' = Undefined
                 /\ error' = Null]_vars
  /\ [][(StartsFinally /\ isSettled(W)) =>
          /\ state' = state
          /\ result' = result
          /\ error' = error]_vars

\* The finally hook of an asynchronous action on which nothing but execute()
\* was called and no hook threw: the engine completed it.
C34_Witness ==
  /\ ~isSync
  /\ InHook(W)
  /\ Top(W).hook = "_onPhaseFinally"
  /\ ops = 1
  /\ ~hookActs
  /\ state = States.did
  /\ result = Undefined
  /\ Started("_doDefault")

\* Some parameter of some group has an entry in paramDefn.errors.
HasGroupedError(pd) == \E n \in Grouped(pd) : pd.errors[n].present

\* A step that is a call of checkParametersErrors.
CheckStep ==
  /\ validations' = validations + 1
  /\ validated'.op = "checkParametersErrors"

\* C35: a call of checkParametersErrors leaves promptNeeded true if and only
\* if some parameter of some group has an entry in paramDefn.errors,
\* whatever promptNeeded was before, and changes nothing else.
C35_PromptNeededIffErrors ==
  /\ [][CheckStep =>
          /\ paramDefn'.promptNeeded = HasGroupedError(paramDefn)
          /\ paramDefn' = [paramDefn EXCEPT !.promptNeeded = HasGroupedError(paramDefn)]]_vars
  /\ [](validated.op = "checkParametersErrors" =>
          (paramDefn.promptNeeded <=> HasGroupedError(paramDefn)))

\* promptNeeded was true and the only error entry is for a name that is in
\* no group: the call lowered promptNeeded.
C35_Witness ==
  /\ validated.op = "checkParametersErrors"
  /\ validated.was
  /\ ~paramDefn.promptNeeded
  /\ paramDefn.errors["other"].present

\* A step that is a call of validateSingleParameter.
ValidateStep ==
  /\ validations' = validations + 1
  /\ validated'.op = "validateSingleParameter"

\* C36: a validation of a parameter made right after a validation of the
\* same parameter with the same value leaves the error list of the
\* parameter as it was, and no validation leaves more than the two
\* messages one validation can add.
C36_LastValidationOnly ==
  /\ [][(/\ ValidateStep
         /\ validated.op = "validateSingleParameter"
         /\ validated'.paramName = validated.paramName
         /\ validated'.untrustedValue = validated.untrustedValue) =>
          paramDefn'.errors[validated.paramName] = paramDefn.errors[validated.paramName]]_vars
  /\ [][ValidateStep => Len(paramDefn'.errors[validated'.paramName].list) <= 2]_vars

\* A step in which tripleHandler handles an event.
HandlerRuns == clickLog' # clickLog

\* C37: the stored click counter is 0, 1 or 2; when it is 0 the stored start
\* time is 0; a run that dispatches a triple click stores 0 for both; and a
\* run that finds the counter 0 stores 1 and the time stamp of its event.
C37_StoredCounterAndStart ==
  /\ [](triclick_clicks \in {0, 1, 2})
  /\ [](triclick_clicks = 0 => triclick_start = 0)
  /\ [][(HandlerRuns /\ clickLog'[Len(clickLog')].type = "tripleclick") =>
          (triclick_clicks' = 0 /\ triclick_start' = 0)]_vars
  /\ [][(HandlerRuns /\ triclick_clicks = 0) =>
          /\ triclick_clicks' = 1
          /\ triclick_start' = clickLog'[Len(clickLog')].timeStamp
          /\ clickLog'[Len(clickLog')].type # "tripleclick"]_vars

\* The third event was dispatched as a triple click and the fourth started
\* a new sequence.
C37_Witness ==
  /\ Len(clickLog) = 4
  /\ clickLog[3].type = "tripleclick"
  /\ clickLog[4].type = "touchstart"
  /\ triclick_clicks = 1
  /\ triclick_start = clickLog[4].timeStamp

\* C38: a call of onUnregister on a plugin whose config defines
\* onUnregister calls that callback with the plugin as `this` and as
\* argument and does not throw, as a call of onRegister does with
\* config.onRegister; when the callback is not defined the call does
\* nothing.
C38_OnUnregisterCallsBack ==
  \A i \in 1..Len(pluginCalls) :
    LET c == pluginCalls[i]
        defined == IF c.method = "onRegister" THEN plugin.config.onRegister
                   ELSE plugin.config.onUnregister
    IN /\ ~c.threw
       /\ c.called <=> defined
       /\ c.called => (c.thisArg = plugin.id /\ c.arg = plugin.id)

\* Entry m is looked at: every entry, or only those whose external mode is
\* not continuous when the mapping's isCategoricalFixed is true.
Considered(m) ==
  externalMapping.isCategoricalFixed => ~strategyApplicationList[m].externalMode.isContinuous

\* Entry m passes the validation for the fields of the mapping.
PassesValidation(m) ==
  ~__validateStrategyApplication(strategyApplicationList, m,
                                 externalMapping.fieldIndexes.indexes).isNull

\* The entries that are looked at and pass the validation.
Candidates ==
  { m \in 1..Len(strategyApplicationList) : Considered(m) /\ PassesValidation(m) }

\* C39: selectAdaptationStrategyOn returns null when the mapping has no
\* fields or its field indexes are null, and when no considered entry
\* passes the validation; otherwise it returns the application of the
\* first considered entry of the list that passes the validation, with the
\* field indexes of the mapping.
C39_FirstValidStrategy ==
  selected.called =>
    IF ~externalMapping.hasFields \/ externalMapping.fieldIndexes.isNull \/ Candidates = {}
      THEN selected.result.isNull
      ELSE /\ ~selected.result.isNull
           /\ selected.result.entry \in Candidates
           /\ \A m \in Candidates : selected.result.entry <= m
           /\ selected.result.externalFieldIndexes = externalMapping.fieldIndexes.indexes
           /\ selected.result.addsFields =
                strategyApplicationList[selected.result.entry].validation.addsFields

\* The mapping is fixed to categorical; the first entry is continuous and
\* would pass the validation; the second, not continuous, is returned.
C39_Witness ==
  /\ selected.called
  /\ externalMapping.isCategoricalFixed
  /\ Len(strategyApplicationList) = 2
  /\ strategyApplicationList[1].externalMode.isContinuous
  /\ PassesValidation(1)
  /\ ~selected.result.isNull
  /\ selected.result.entry = 2

====
